---- MODULE Spec2Model ----
(***************************************************************************)
(* A model of LychrelFinder: the reverse-add engine (src/src/lychrel.rs),  *)
(* the thread cache (src/src/thread_cache.rs) and the batched record hunt  *)
(* (src/src/record_hunt.rs).                                               *)
(*                                                                         *)
(* A BigUint is modelled by its canonical decimal string: the sequence of  *)
(* its decimal digits, most significant first, without leading zeros       *)
(* (<<0>> is zero).  Arithmetic is done on these digit strings, so the     *)
(* numbers are not limited by the width of TLC's integers.                 *)
(***************************************************************************)
EXTENDS Integers, Sequences, FiniteSets, TLC

VARIABLES
  args,      \* pure-function specification: the inputs of the call
  ret,       \* pure-function specification: <<>> before the call, <<outputs>> after
  cache,     \* the ThreadCache under test
  other,     \* a second ThreadCache: the argument of merge
  last,      \* what the last operation was and what it observed
  runs,      \* number of operations done so far (bounded)
  hunter     \* the RecordHunter

vars == <<args, ret, cache, other, last, runs, hunter>>

---------------------------------------------------------------------------
(* Bounds of the model *)

MaxStart == 200      \* SpecIter: starts 0..MaxStart
MaxIter == 51        \* SpecIter: max_iterations 0..MaxIter

---------------------------------------------------------------------------
(* Option<T>: None is <<>>, Some(x) is <<x>> *)

None == <<>>
Some(x) == <<x>>
IsSome(o) == o # <<>>
Unwrap(o) == o[1]

Min(x, y) == IF x <= y THEN x ELSE y
Max(x, y) == IF x >= y THEN x ELSE y

---------------------------------------------------------------------------
(* BigUint as a decimal digit string *)

\* BigUint::from(n) for a machine integer n
RECURSIVE ToDigits(_)
ToDigits(n) == IF n < 10 THEN <<n>> ELSE Append(ToDigits(n \div 10), n % 10)

\* str::parse::<BigUint>() of a string of decimal digits: leading zeros are dropped
RECURSIVE ParseDigits(_)
ParseDigits(s) == IF Len(s) > 1 /\ s[1] = 0 THEN ParseDigits(Tail(s)) ELSE s

\* s.chars().rev().collect::<String>()
RevStr(s) == [i \in 1..Len(s) |-> s[Len(s) + 1 - i]] \o <<>>

\* a reverse that keeps the reversed string as it is
reverse_number_unparsed(n) == RevStr(n)

reverse_number(n) == ParseDigits(RevStr(n))

is_palindrome(n) == n = RevStr(n)

\* left-pad a digit string with zeros to length n
Pad(s, n) == [i \in 1..n |-> IF i <= n - Len(s) THEN 0 ELSE s[i - (n - Len(s))]] \o <<>>

\* BigUint addition (current += reversed): schoolbook addition with carries
BigAdd(x, y) ==
  LET n == IF Len(x) >= Len(y) THEN Len(x) ELSE Len(y)
      px == Pad(x, n)
      py == Pad(y, n)
      ds == [i \in 1..n |-> px[i] + py[i]] \o <<>>
      \* carry into position i: some position to its right overflows and every
      \* position in between holds a 9
      cin == [i \in 1..n |->
                IF \E j \in (i + 1)..n :
                     ds[j] >= 10 /\ \A m \in (i + 1)..(j - 1) : ds[m] = 9
                THEN 1 ELSE 0] \o <<>>
      body == [i \in 1..n |-> (ds[i] + cin[i]) % 10] \o <<>>
  IN IF ds[1] + cin[1] >= 10 THEN <<1>> \o body ELSE body

\* n.to_string().len()
NumDigits(n) == Len(n)

---------------------------------------------------------------------------
(* lychrel_iteration *)

IterationResult(start, pal, iters, final) ==
  [start_number |-> start, is_palindrome |-> pal, iterations |-> iters,
   final_number |-> final, is_potential_lychrel |-> ~pal]

\* The local variables of the while loop of lychrel_iteration; `found` is set
\* when the body returns from inside the loop.
LoopState(current, iteration_count, found) ==
  [current |-> current, iteration_count |-> iteration_count, found |-> found]

\* one pass through the body of the while loop
lychrel_loop_body(st) ==
  LET next == BigAdd(st.current, reverse_number(st.current)) IN
  LoopState(next, st.iteration_count + 1, is_palindrome(next))

\* n passes through the loop, or fewer when a pass returns
RECURSIVE lychrel_loop(_, _)
lychrel_loop(st, n) ==
  IF n = 0 \/ st.found THEN st
  ELSE IF n = 1 THEN lychrel_loop_body(st)
  ELSE lychrel_loop(lychrel_loop(st, n \div 2), n - (n \div 2))

\* a loop that tests the bound only after the first step
lychrel_iteration_do_while(start, max_iterations) ==
  IF is_palindrome(start)
  THEN IterationResult(start, TRUE, 0, Some(start))
  ELSE LET st == lychrel_loop(LoopState(start, 0, FALSE), Max(max_iterations, 1)) IN
       IterationResult(start, st.found, st.iteration_count, Some(st.current))

lychrel_iteration(start, max_iterations) ==
  IF is_palindrome(start)
  THEN IterationResult(start, TRUE, 0, Some(start))
  ELSE LET st == lychrel_loop(LoopState(start, 0, FALSE), max_iterations) IN
       IterationResult(start, st.found, st.iteration_count, Some(st.current))

---------------------------------------------------------------------------
(* ThreadCache *)

\* HashMap<BigUint, ThreadInfo> is a function from keys to ThreadInfo records
EmptyMap == <<>>

ThreadInfo(seed, from_seed, tested, digits, reached, pal_at) ==
  [seed_number |-> seed, iterations_from_seed |-> from_seed,
   max_iterations_tested |-> tested, final_digits |-> digits,
   reached_palindrome |-> reached, palindrome_at_iteration |-> pal_at]

ThreadCache_new(max_size) ==
  [known_values |-> EmptyMap, snapshot |-> None, max_cache_size |-> max_size,
   hits |-> 0, misses |-> 0]

new_empty(max_size) == ThreadCache_new(max_size)

new_worker(snapshot, max_size) ==
  [known_values |-> EmptyMap, snapshot |-> Some(snapshot), max_cache_size |-> max_size,
   hits |-> 0, misses |-> 0]

\* a lookup that asks the snapshot plane first
check_snapshot_first(c, value) ==
  IF IsSome(c.snapshot) /\ value \in DOMAIN Unwrap(c.snapshot)
  THEN [cache |-> [c EXCEPT !.hits = @ + 1], info |-> Some(Unwrap(c.snapshot)[value])]
  ELSE IF value \in DOMAIN c.known_values
       THEN [cache |-> [c EXCEPT !.hits = @ + 1], info |-> Some(c.known_values[value])]
       ELSE [cache |-> [c EXCEPT !.misses = @ + 1], info |-> None]

\* check: the ThreadInfo found (local plane first, then the snapshot) and the
\* cache with its counters updated
check(c, value) ==
  IF value \in DOMAIN c.known_values
  THEN [cache |-> [c EXCEPT !.hits = @ + 1], info |-> Some(c.known_values[value])]
  ELSE IF IsSome(c.snapshot)
       THEN IF value \in DOMAIN Unwrap(c.snapshot)
            THEN [cache |-> [c EXCEPT !.hits = @ + 1],
                  info |-> Some(Unwrap(c.snapshot)[value])]
            ELSE [cache |-> [c EXCEPT !.misses = @ + 1], info |-> None]
       ELSE [cache |-> [c EXCEPT !.misses = @ + 1], info |-> None]

should_cache_min == 50

\* a threshold that leaves out the run of exactly 50 iterations
should_cache_above(iterations) == iterations > should_cache_min

should_cache(iterations) == iterations >= should_cache_min

cache_limit == 100

\* the subsets of S that have exactly k elements
RECURSIVE KSubsets(_, _)
KSubsets(S, k) ==
  IF k = 0 THEN {{}}
  ELSE UNION {{T \cup {x} : x \in S \ T} : T \in KSubsets(S, k - 1)}

\* the removal of evict_if_needed: the maps it can leave.  The entries are
\* sorted by max_iterations_tested (a stable sort of the HashMap's iteration
\* order, which is unspecified) and the first to_remove of them are removed.
evict_lowest(c) ==
  LET kv == c.known_values
      n == Cardinality(DOMAIN kv)
      to_remove == Min(Max(c.max_cache_size \div 10, 1), n)
      AtMost(v) == {k \in DOMAIN kv : kv[k].max_iterations_tested <= v}
      Below(v) == {k \in DOMAIN kv : kv[k].max_iterations_tested < v}
      \* the last entry removed has this max_iterations_tested
      cut == CHOOSE v \in {kv[k].max_iterations_tested : k \in DOMAIN kv} :
               Cardinality(AtMost(v)) >= to_remove /\ Cardinality(Below(v)) < to_remove
      ties == AtMost(cut) \ Below(cut)
  IN {[c EXCEPT !.known_values = [k \in (DOMAIN kv \ (Below(cut) \cup T)) |-> kv[k]]] :
        T \in KSubsets(ties, to_remove - Cardinality(Below(cut)))}

\* an eviction that already runs when the cache is exactly full
evict_if_needed_when_full(c) ==
  IF Cardinality(DOMAIN c.known_values) >= c.max_cache_size /\ c.known_values # EmptyMap
  THEN evict_lowest(c)
  ELSE {c}

\* evict_if_needed: one removal, only when the local plane is over capacity
evict_if_needed(c) ==
  IF Cardinality(DOMAIN c.known_values) > c.max_cache_size
  THEN evict_lowest(c)
  ELSE {c}

\* insertions that also write the first value of the path through the shared
\* handle
add_thread_insert_shared(c, path, info) ==
  LET limit == Min(cache_limit, Len(path))
      keys == {path[i] : i \in 1..limit}
      LastIdx(k) == CHOOSE i \in 1..limit : path[i] = k /\ \A j \in (i + 1)..limit : path[j] # k
      position_info(i) == [info EXCEPT !.iterations_from_seed = @ + (i - 1)]
      local == [k \in (DOMAIN c.known_values \cup keys) |->
                  IF k \in keys THEN position_info(LastIdx(k)) ELSE c.known_values[k]]
  IN IF IsSome(c.snapshot) /\ limit > 0
     THEN [c EXCEPT !.known_values = local,
                    !.snapshot = Some([k \in (DOMAIN Unwrap(c.snapshot) \cup {path[1]}) |->
                                         IF k = path[1] THEN info ELSE Unwrap(c.snapshot)[k]])]
     ELSE [c EXCEPT !.known_values = local]

\* the insertions of add_thread: the first cache_limit values of the path, in
\* order, each with iterations_from_seed advanced by its index
add_thread_insert(c, path, info) ==
  LET limit == Min(cache_limit, Len(path))
      keys == {path[i] : i \in 1..limit}
      LastIdx(k) == CHOOSE i \in 1..limit : path[i] = k /\ \A j \in (i + 1)..limit : path[j] # k
      position_info(i) == [info EXCEPT !.iterations_from_seed = @ + (i - 1)]
  IN [c EXCEPT !.known_values =
        [k \in (DOMAIN c.known_values \cup keys) |->
           IF k \in keys THEN position_info(LastIdx(k)) ELSE c.known_values[k]]]

\* add_thread: the caches it can leave (insertions, then evict_if_needed)
add_thread(c, path, info) == evict_if_needed(add_thread_insert(c, path, info))

\* a merge whose comparison is the wrong way round
merge_insert_lower(c, o) ==
  [c EXCEPT
     !.hits = @ + o.hits,
     !.misses = @ + o.misses,
     !.known_values =
        [k \in (DOMAIN c.known_values \cup DOMAIN o.known_values) |->
           IF k \in DOMAIN o.known_values
           THEN IF k \in DOMAIN c.known_values
                THEN IF o.known_values[k].max_iterations_tested
                          < c.known_values[k].max_iterations_tested
                     THEN o.known_values[k] ELSE c.known_values[k]
                ELSE o.known_values[k]
           ELSE c.known_values[k]]]

\* the insertions of merge, under the dominance rule
merge_insert(c, o) ==
  [c EXCEPT
     !.hits = @ + o.hits,
     !.misses = @ + o.misses,
     !.known_values =
        [k \in (DOMAIN c.known_values \cup DOMAIN o.known_values) |->
           IF k \in DOMAIN o.known_values
           THEN IF k \in DOMAIN c.known_values
                THEN IF o.known_values[k].max_iterations_tested
                          > c.known_values[k].max_iterations_tested
                     THEN o.known_values[k] ELSE c.known_values[k]
                ELSE o.known_values[k]
           ELSE c.known_values[k]]]

\* merge: the caches it can leave
merge(c, o) == evict_if_needed(merge_insert(c, o))

\* a snapshot that copies the local plane and leaves it in place
take_snapshot_keep_local(c) ==
  [cache |-> [c EXCEPT !.snapshot = Some(c.known_values)], handle |-> c.known_values]

\* take_snapshot: the local plane moves into the shared handle
take_snapshot(c) ==
  [cache |-> [c EXCEPT !.known_values = EmptyMap, !.snapshot = Some(c.known_values)],
   handle |-> c.known_values]

len(c) == Cardinality(DOMAIN c.known_values)

\* A String is the sequence of the codes of its characters; the characters
\* '0'..'9' have the codes 48..57.
\* BigUint::to_string: the decimal digits as characters
to_string(n) == [i \in 1..Len(n) |-> 48 + n[i]] \o <<>>

\* str.parse::<BigUint>(): the number of a non-empty string of decimal digits
\* (leading zeros allowed), an error (None) for any other string
parse_BigUint(str) ==
  IF str # <<>> /\ \A i \in 1..Len(str) : str[i] \in 48..57
  THEN Some(ParseDigits([i \in 1..Len(str) |-> str[i] - 48] \o <<>>))
  ELSE None

\* Result::unwrap_or_default on a BigUint: zero for an error
unwrap_or_default(o) == IF IsSome(o) THEN Unwrap(o) ELSE <<0>>

\* save_to_file: the map written, keyed by the decimal strings of the keys of
\* the local plane
save_to_file(c) ==
  [str \in {to_string(k) : k \in DOMAIN c.known_values} |->
     c.known_values[CHOOSE k \in DOMAIN c.known_values : to_string(k) = str]]

---------------------------------------------------------------------------
(* lychrel_iteration_with_cache *)

\* What one call leaves: the IterationResult, the cache, and (for the
\* properties) the entry it stopped on, after how many of its own steps, whether
\* it called add_thread, and the path it had recorded.
RunOutcome(result, c, hit, hit_at, called, path) ==
  [result |-> result, cache |-> c, hit |-> hit, hit_at |-> hit_at,
   add_called |-> called, path |-> path]

\* the ThreadInfo written for a finished thread
\* a thread information that leaves out the step at which the palindrome came
new_thread_info_without_step(start, iteration_count, current, reached) ==
  ThreadInfo(start, 0, iteration_count, NumDigits(current), reached, None)

new_thread_info(start, iteration_count, current, reached) ==
  ThreadInfo(start, 0, iteration_count, NumDigits(current), reached,
             IF reached THEN Some(iteration_count) ELSE None)

\* The local variables of the while loop of lychrel_iteration_with_cache, with
\* the cache; `exit` tells how the body returned from inside the loop
\* ("hit": on a cache entry, "palindrome": on a palindrome), "" while it has not.
CacheLoopState(current, iteration_count, path, c, exit, hit) ==
  [current |-> current, iteration_count |-> iteration_count, path |-> path,
   cache |-> c, exit |-> exit, hit |-> hit]

\* a pass that steps without consulting the cache
cache_loop_body_no_check(st) ==
  LET next == BigAdd(st.current, reverse_number(st.current)) IN
  CacheLoopState(next, st.iteration_count + 1, Append(st.path, next), st.cache,
                 IF is_palindrome(next) THEN "palindrome" ELSE "", None)

\* one pass through the body of the while loop
cache_loop_body(st) ==
  LET chk == check(st.cache, st.current) IN
  IF IsSome(chk.info)
  THEN CacheLoopState(st.current, st.iteration_count, st.path, chk.cache, "hit", chk.info)
  ELSE LET next == BigAdd(st.current, reverse_number(st.current)) IN
       CacheLoopState(next, st.iteration_count + 1, Append(st.path, next), chk.cache,
                      IF is_palindrome(next) THEN "palindrome" ELSE "", None)

\* n passes through the loop, or fewer when a pass returns
RECURSIVE cache_loop(_, _)
cache_loop(st, n) ==
  IF n = 0 \/ st.exit # "" THEN st
  ELSE IF n = 1 THEN cache_loop_body(st)
  ELSE cache_loop(cache_loop(st, n \div 2), n - (n \div 2))

\* the return on a cache hit
hit_result(start, st) ==
  LET thread_info == Unwrap(st.hit)
      total_iterations ==
        IF thread_info.reached_palindrome
        THEN st.iteration_count
               + (IF IsSome(thread_info.palindrome_at_iteration)
                  THEN Unwrap(thread_info.palindrome_at_iteration)
                  ELSE thread_info.max_iterations_tested)
        ELSE st.iteration_count + thread_info.max_iterations_tested
  IN IterationResult(start, thread_info.reached_palindrome, total_iterations, None)

\* the return of a run that was not cut short by the cache: on a palindrome, or
\* after the loop as a potential Lychrel number
finish_run(start, st, reached) ==
  LET result == IterationResult(start, reached, st.iteration_count, Some(st.current)) IN
  IF should_cache(st.iteration_count)
  THEN {RunOutcome(result, c2, None, st.iteration_count, TRUE, st.path) :
          c2 \in add_thread(st.cache, st.path,
                            new_thread_info(start, st.iteration_count, st.current, reached))}
  ELSE {RunOutcome(result, st.cache, None, st.iteration_count, FALSE, st.path)}

\* the loop and what follows it
run_loop(start, max_iterations, c) ==
  LET st == cache_loop(CacheLoopState(start, 0, <<>>, c, "", None), max_iterations) IN
  IF st.exit = "hit"
  THEN {RunOutcome(hit_result(start, st), st.cache, st.hit, st.iteration_count, FALSE,
                   st.path)}
  ELSE finish_run(start, st, st.exit = "palindrome")

\* a version that enters the loop without testing the start
lychrel_iteration_with_cache_no_start_test(start, max_iterations, c) ==
  run_loop(start, max_iterations, c)

\* lychrel_iteration_with_cache: the outcomes it can have (one, unless
\* add_thread has to evict)
lychrel_iteration_with_cache(start, max_iterations, c) ==
  IF is_palindrome(start)
  THEN {RunOutcome(IterationResult(start, TRUE, 0, Some(start)), c, None, 0, FALSE, <<>>)}
  ELSE run_loop(start, max_iterations, c)

---------------------------------------------------------------------------
(* SpecIter: one call of lychrel_iteration, and of lychrel_iteration_with_cache *)
(* on a fresh cache, for every start and every bound                            *)

MaxSize == 1         \* SpecIter: the fresh cache has max_cache_size 0..MaxSize

NoOp == [op |-> "none"]

\* no RecordHunter has been constructed
NoHunter == [state |-> "none"]

Init_Iter ==
  /\ args \in [start : {ToDigits(n) : n \in 0..MaxStart},
               max_iterations : 0..MaxIter,
               max_size : 0..MaxSize]
  /\ ret = None
  /\ cache = ThreadCache_new(0)
  /\ other = ThreadCache_new(0)
  /\ hunter = NoHunter
  /\ last = NoOp
  /\ runs = 0

Call ==
  /\ ret = None
  /\ \E o \in lychrel_iteration_with_cache(args.start, args.max_iterations,
                                           ThreadCache_new(args.max_size)) :
       ret' = Some([plain |-> lychrel_iteration(args.start, args.max_iterations),
                    cached |-> o.result,
                    add_called |-> o.add_called])
  /\ UNCHANGED <<hunter, args, cache, other, last, runs>>

Next_Iter == Call

SpecIter == Init_Iter /\ [][Next_Iter]_vars

\* the iterates 0..i of the reverse-add step, from n
RECURSIVE Orbit(_, _)
Orbit(n, i) ==
  IF i = 0 THEN <<n>>
  ELSE LET o == Orbit(n, i - 1) IN Append(o, BigAdd(o[i], reverse_number(o[i])))

\* the same iterates, computed by halving the number of steps still to make
RECURSIVE OrbitExtend(_, _)
OrbitExtend(o, n) ==
  IF n = 0 \/ o = <<>> THEN o
  ELSE IF n = 1 THEN Append(o, BigAdd(o[Len(o)], reverse_number(o[Len(o)])))
  ELSE OrbitExtend(OrbitExtend(o, n \div 2), n - (n \div 2))

OrbitSeq(n, i) == OrbitExtend(<<n>>, i)

\* C1: lychrel_iteration(n, k) stops at the least index i in 0..k whose iterate
\* is a palindrome, with is_palindrome = true, iterations = i and final_number
\* the i-th iterate; when there is none it returns is_palindrome = false,
\* iterations = k and the k-th iterate.
C1_LeastPalindromeIndex ==
  IsSome(ret) =>
    LET r == Unwrap(ret).plain
        k == args.max_iterations
        orb == Orbit(args.start, r.iterations)
    IN /\ r.iterations \in 0..k
       /\ r.start_number = args.start
       /\ r.final_number = Some(orb[r.iterations + 1])
       /\ \A j \in 0..(r.iterations - 1) : ~is_palindrome(orb[j + 1])
       /\ r.is_palindrome = is_palindrome(orb[r.iterations + 1])
       /\ ~r.is_palindrome => r.iterations = k

\* 89 reaches 8813200023188 after 24 steps
C1_Witness ==
  /\ IsSome(ret)
  /\ args.start = ToDigits(89)
  /\ Unwrap(ret).plain.is_palindrome
  /\ Unwrap(ret).plain.iterations = 24
  /\ Unwrap(ret).plain.final_number = Some(<<8, 8, 1, 3, 2, 0, 0, 0, 2, 3, 1, 8, 8>>)

\* C2: on a cache without local entries and without snapshot,
\* lychrel_iteration_with_cache returns the is_palindrome and the iterations of
\* lychrel_iteration.
C2_FreshCacheAgrees ==
  IsSome(ret) =>
    /\ Unwrap(ret).cached.is_palindrome = Unwrap(ret).plain.is_palindrome
    /\ Unwrap(ret).cached.iterations = Unwrap(ret).plain.iterations

\* a run long enough to be admitted to the cache (196, 50 steps or more)
C2_Witness ==
  /\ IsSome(ret)
  /\ Unwrap(ret).add_called
  /\ ~Unwrap(ret).cached.is_palindrome
  /\ Unwrap(ret).cached.iterations = args.max_iterations

---------------------------------------------------------------------------
(* SpecRun: successive calls of lychrel_iteration_with_cache on one cache *)

MaxRuns == 2         \* SpecRun: number of calls made on the cache

worker_cache_size == 10000

\* the thread of 196, past the admission threshold
Thread196 == OrbitSeq(ToDigits(196), should_cache_min + 1)

\* 89 and 10911 reach a palindrome (after 24 and 55 steps), 121 is one, 196 and
\* 295 reach none and meet at 887, 11901 is the reverse of 10911; two long
\* numbers of the thread of 196: its iterate 51, and the reverse of its iterate
\* 49, whose first step gives the iterate 50 of 196
RunStarts ==
  {ToDigits(n) : n \in {89, 121, 196, 295, 10911, 11901}}
    \cup {Thread196[should_cache_min + 2], reverse_number(Thread196[should_cache_min])}

\* bounds below, at and above the admission threshold
RunBounds == {should_cache_min - 1, should_cache_min, 2 * should_cache_min}

Init_Run ==
  /\ cache = ThreadCache_new(worker_cache_size)
  /\ last = NoOp
  /\ runs = 0
  /\ args = None
  /\ ret = None
  /\ other = ThreadCache_new(0)
  /\ hunter = NoHunter

Run(start, max_iterations) ==
  /\ runs < MaxRuns
  /\ \E o \in lychrel_iteration_with_cache(start, max_iterations, cache) :
       /\ cache' = o.cache
       /\ last' = [op |-> "run", start |-> start, max_iterations |-> max_iterations,
                   result |-> o.result, hit |-> o.hit, hit_at |-> o.hit_at,
                   add_called |-> o.add_called, path |-> o.path, pre |-> cache]
  /\ runs' = runs + 1
  /\ args' = last
  /\ UNCHANGED <<hunter, ret, other>>

Next_Run == \E start \in RunStarts, max_iterations \in RunBounds : Run(start, max_iterations)

SpecRun == Init_Run /\ [][Next_Run]_vars

\* the last call stopped on a cache entry of a thread that reached a palindrome
StoppedOnPalindromeEntry ==
  /\ last.op = "run"
  /\ IsSome(last.hit)
  /\ Unwrap(last.hit).reached_palindrome

\* C3: a run that stops on a cache hit after j steps, on an entry of a thread
\* that reached its palindrome, reports the true number of reverse-add steps
\* from its start to that palindrome.
C3_HitReportsTrueCount ==
  StoppedOnPalindromeEntry =>
    LET enough == last.hit_at + Unwrap(last.hit).max_iterations_tested
        truth == lychrel_iteration(last.start, enough)
    IN truth.is_palindrome /\ last.result.iterations = truth.iterations

\* C4: the iterations of every result of lychrel_iteration_with_cache(n, k, C)
\* are at most k.
C4_IterationsWithinBound ==
  last.op = "run" => last.result.iterations <= last.max_iterations

\* the first cache_limit values of a path
Admitted(path) == {path[i] : i \in 1..Min(cache_limit, Len(path))}

\* C10: lychrel_iteration_with_cache calls add_thread exactly when it ends
\* without a cache hit at 50 iterations or more, and then the recorded path is
\* in the cache; in every other case (start a palindrome, cache hit, fewer than
\* 50 iterations) the entries of the cache are left as they were.
C10_AdmissionOnlyWhenLong ==
  last.op = "run" =>
    LET admits == ~IsSome(last.hit) /\ last.result.iterations >= 50 IN
    /\ last.add_called <=> admits
    /\ admits =>
         /\ Len(last.path) = last.result.iterations
         /\ \A v \in Admitted(last.path) :
              /\ v \in DOMAIN cache.known_values
              /\ cache.known_values[v].seed_number = last.start
              /\ cache.known_values[v].max_iterations_tested = last.result.iterations
    /\ ~admits =>
         /\ cache.known_values = last.pre.known_values
         /\ cache.snapshot = last.pre.snapshot

\* the run before the last one ended without a cache hit after 50 iterations or
\* more, the last run had the same bound, and the admitted values of the earlier
\* path were all in the cache when the last run began
AfterAdmittedRun ==
  /\ last.op = "run"
  /\ args.op = "run"
  /\ args.max_iterations = last.max_iterations
  /\ ~IsSome(args.hit)
  /\ args.result.iterations >= should_cache_min
  /\ Admitted(args.path) \subseteq DOMAIN last.pre.known_values

\* the orbit of start reaches one of the values in at most `steps` steps, and
\* before any palindrome
Meets(start, steps, values) ==
  LET o == OrbitSeq(start, steps) IN
  \E j \in 0..steps :
    /\ o[j + 1] \in values
    /\ \A m \in 0..j : ~is_palindrome(o[m + 1])

\* the last run recorded a cache hit and returned the verdict of the run before
HitWithSameVerdict ==
  /\ cache.hits > last.pre.hits
  /\ last.result.is_palindrome = args.result.is_palindrome

C10_Witness ==
  /\ last.op = "run"
  /\ last.add_called
  /\ last.result.iterations = 50
  /\ last.pre.known_values # EmptyMap

---------------------------------------------------------------------------
(* SpecCache: the operations of ThreadCache, on a receiver `cache` and on a  *)
(* second cache `other` that is merged into it                               *)

MaxKey == 2          \* SpecCache: the keys are 1..MaxKey
MaxCap == 2          \* SpecCache: max_cache_size 0..MaxCap
MaxOps == 3          \* SpecCache: number of operations made

Keys == {ToDigits(n) : n \in 1..MaxKey}

\* the keys of S in increasing order
RECURSIVE Ascending(_)
Ascending(S) ==
  IF S = {} THEN <<>>
  ELSE LET m == CHOOSE n \in S : \A o \in S : n <= o IN <<ToDigits(m)>> \o Ascending(S \ {m})

\* the paths: strictly increasing, as the values of a reverse-add orbit are
Paths == {Ascending(S) : S \in SUBSET (1..MaxKey)}

\* the fate of a thread that reached no palindrome in 50 steps, and of one that
\* reached one at step 51
Infos ==
  {ThreadInfo(ToDigits(1), 0, should_cache_min, 2, FALSE, None),
   ThreadInfo(ToDigits(1), 0, should_cache_min + 1, 2, TRUE, Some(should_cache_min + 1))}

Init_Cache ==
  /\ \E max_size \in 0..MaxCap : cache = ThreadCache_new(max_size)
  /\ other = new_empty(MaxCap)
  /\ hunter = NoHunter
  /\ last = NoOp
  /\ runs = 0
  /\ args = None
  /\ ret = None

\* cache.add_thread(path, info)
AddThread(path, info) ==
  /\ runs < MaxOps
  /\ \E c2 \in add_thread(cache, path, info) : cache' = c2
  /\ last' = [op |-> "add_thread", path |-> path, info |-> info, pre |-> cache]
  /\ runs' = runs + 1
  /\ UNCHANGED <<hunter, args, ret, other>>

\* other.add_thread(path, info): the second cache gets its entries
AddThreadOther(path, info) ==
  /\ runs < MaxOps
  /\ \E c2 \in add_thread(other, path, info) : other' = c2
  /\ last' = [op |-> "add_thread_other"]
  /\ runs' = runs + 1
  /\ UNCHANGED <<hunter, args, ret, cache>>

\* cache.check(value)
Check(value) ==
  /\ runs < MaxOps
  /\ cache' = check(cache, value).cache
  /\ last' = [op |-> "check", value |-> value, info |-> check(cache, value).info,
              pre |-> cache]
  /\ runs' = runs + 1
  /\ UNCHANGED <<hunter, args, ret, other>>

\* cache.merge(other): `other` is moved into the call; a new one takes its place
Merge ==
  /\ runs < MaxOps
  /\ \E c2 \in merge(cache, other) : cache' = c2
  /\ other' = new_empty(MaxCap)
  /\ last' = [op |-> "merge", arg |-> other, pre |-> cache]
  /\ runs' = runs + 1
  /\ UNCHANGED <<hunter, args, ret>>

\* cache.take_snapshot()
TakeSnapshot ==
  /\ runs < MaxOps
  /\ cache' = take_snapshot(cache).cache
  /\ last' = [op |-> "take_snapshot", handle |-> take_snapshot(cache).handle, pre |-> cache]
  /\ runs' = runs + 1
  /\ UNCHANGED <<hunter, args, ret, other>>

Next_Cache ==
  \/ \E path \in Paths, info \in Infos : AddThread(path, info)
  \/ \E path \in Paths, info \in Infos : AddThreadOther(path, info)
  \/ \E value \in Keys : Check(value)
  \/ Merge
  \/ TakeSnapshot

SpecCache == Init_Cache /\ [][Next_Cache]_vars

\* C7: after add_thread and after merge the local plane holds at most
\* max_cache_size entries.
C7_LocalPlaneWithinCapacity ==
  last.op \in {"add_thread", "merge"} => len(cache) <= cache.max_cache_size

\* the local plane as add_thread(path, _) fills it, before any eviction
KeysAfterAdd == DOMAIN last.pre.known_values \cup Admitted(last.path)

\* C8 as stated: after add_thread(p, info) with p not empty, check(p[0])
\* returns Some, whatever the capacity and the prior content.
C8_FirstValueFound ==
  (last.op = "add_thread" /\ last.path # <<>>) =>
    IsSome(check(cache, last.path[1]).info)

\* C8 amended: after add_thread(p, info) with p not empty, check(p[0]) returns
\* Some when the local plane with the path's values added holds at most
\* max_cache_size entries (so that nothing is evicted), or when the snapshot
\* holds p[0].
C8_FirstValueFoundUnlessEvicted ==
  (/\ last.op = "add_thread"
   /\ last.path # <<>>
   /\ \/ Cardinality(KeysAfterAdd) <= cache.max_cache_size
      \/ IsSome(cache.snapshot) /\ last.path[1] \in DOMAIN Unwrap(cache.snapshot)) =>
    /\ IsSome(check(cache, last.path[1]).info)
    /\ Cardinality(KeysAfterAdd) <= cache.max_cache_size =>
         Unwrap(check(cache, last.path[1]).info).seed_number = last.info.seed_number

\* a path added to a cache that it fills exactly
C8_Witness ==
  /\ last.op = "add_thread"
  /\ Len(last.path) = 2
  /\ last.pre.known_values = EmptyMap
  /\ cache.max_cache_size = 2
  /\ last.path[1] \in DOMAIN cache.known_values

\* the local plane as merge fills it, before any eviction
KeysAfterMerge == DOMAIN last.pre.known_values \cup DOMAIN last.arg.known_values

\* every key of the merged cache is held with at least its max_iterations_tested
MergedKeysDominated ==
  \A k \in DOMAIN last.arg.known_values :
    /\ k \in DOMAIN cache.known_values
    /\ cache.known_values[k].max_iterations_tested
         >= last.arg.known_values[k].max_iterations_tested

\* C9 as stated: after a.merge(b), a's local plane holds every key of b's local
\* plane with a max_iterations_tested at least that of b's entry, whatever the
\* capacity of a.
C9_MergeKeepsEveryKey ==
  last.op = "merge" => MergedKeysDominated

\* C9 amended: the same, when the local plane of a with the keys of b added
\* holds at most a's max_cache_size entries (so that the merge evicts nothing).
C9_MergeKeepsEveryKeyUnlessEvicted ==
  (last.op = "merge" /\ Cardinality(KeysAfterMerge) <= cache.max_cache_size) =>
    MergedKeysDominated

\* a merge of an entry tested further than the one the receiver holds for the key
C9_Witness ==
  /\ last.op = "merge"
  /\ Cardinality(KeysAfterMerge) <= cache.max_cache_size
  /\ \E k \in DOMAIN last.arg.known_values \cap DOMAIN last.pre.known_values :
       last.arg.known_values[k].max_iterations_tested
         > last.pre.known_values[k].max_iterations_tested

\* C30: add_thread with an empty path leaves the cache as it was: the local
\* entries, the snapshot and the counters.
C30_EmptyPathIsNoOp ==
  (last.op = "add_thread" /\ last.path = <<>>) => cache = last.pre

---------------------------------------------------------------------------
(* The seed generator (src/src/seed_generator.rs), Sequential mode *)

\* a < b on BigUint values
BigLess(a, b) ==
  \/ Len(a) < Len(b)
  \/ /\ Len(a) = Len(b)
     /\ \E i \in 1..Len(a) : a[i] < b[i] /\ \A j \in 1..(i - 1) : a[j] = b[j]

\* BigUint::from(10u32).pow(k)
Pow10(k) == <<1>> \o [i \in 1..k |-> 0]

\* 10^k as a number
RECURSIVE Pow10Value(_)
Pow10Value(k) == IF k = 0 THEN 1 ELSE 10 * Pow10Value(k - 1)

GeneratorMode == {"Sequential", "SmartRandom", "PatternBased"}

SeedGenerator_new(digits, mode) ==
  [current |-> Pow10(digits - 1), max |-> Pow10(digits), digits |-> digits,
   mode |-> mode, skip_count |-> 0, generated_count |-> 0]

\* a version that starts one number after the stored position
from_checkpoint_after(digits, current) ==
  [current |-> BigAdd(current, <<1>>), max |-> Pow10(digits), digits |-> digits,
   mode |-> "Sequential", skip_count |-> 0, generated_count |-> 0]

from_checkpoint(digits, current) ==
  [current |-> current, max |-> Pow10(digits), digits |-> digits,
   mode |-> "Sequential", skip_count |-> 0, generated_count |-> 0]

\* a filter that lets every candidate through
is_potential_seed_always(n) == TRUE

\* SeedGenerator::is_potential_seed: false when the reverse is smaller
SeedGenerator_is_potential_seed(n) ==
  IF BigLess(reverse_number(n), n) THEN FALSE ELSE TRUE

\* a version that moves `current` two numbers on
generate_sequential_by_two(g) ==
  [result |-> g.current, generator |-> [g EXCEPT !.current = BigAdd(@, <<2>>)]]

\* generate_sequential: the current number, and the generator moved one on
generate_sequential(g) ==
  [result |-> g.current, generator |-> [g EXCEPT !.current = BigAdd(@, <<1>>)]]

\* every string of n decimal digits
RECURSIVE DigitStrings(_)
DigitStrings(n) ==
  IF n = 0 THEN {<<>>} ELSE {Append(s, k) : s \in DigitStrings(n - 1), k \in 0..9}

\* generate_smart_random: the numbers the random draw can give, a first digit
\* 1..9 followed by digits 0..9; the generator is left as it was
generate_smart_random(g) == {<<k>> \o s : k \in 1..9, s \in DigitStrings(g.digits - 1)}

generate_from_pattern(g) == generate_sequential(g)

MaxRejected == 1     \* SmartRandom: rejected draws counted in one call of next

\* the loop of next in the modes that walk the range
RECURSIVE next_loop(_)
next_loop(g) ==
  LET gen == IF g.mode = "Sequential" THEN generate_sequential(g)
             ELSE generate_from_pattern(g)
      candidate == gen.result
  IN IF ~BigLess(candidate, g.max) THEN [value |-> None, generator |-> gen.generator]
     ELSE IF SeedGenerator_is_potential_seed(candidate)
     THEN [value |-> Some(candidate),
           generator |-> [gen.generator EXCEPT !.generated_count = @ + 1]]
     ELSE next_loop([gen.generator EXCEPT !.skip_count = @ + 1])

\* Iterator::next for SeedGenerator: the outcomes it can have (one, unless the
\* mode is SmartRandom: there the loop returns the first draw that passes the
\* filter, after any number of rejected draws, of which up to MaxRejected are
\* followed here)
SeedGenerator_next(g) ==
  IF ~BigLess(g.current, g.max) THEN {[value |-> None, generator |-> g]}
  ELSE IF g.mode = "SmartRandom"
  THEN LET draws == generate_smart_random(g)
           passed == {c \in draws : SeedGenerator_is_potential_seed(c)}
       IN {[value |-> Some(c),
            generator |-> [g EXCEPT !.generated_count = @ + 1, !.skip_count = @ + r]] :
             c \in passed, r \in 0..(IF passed = draws THEN 0 ELSE MaxRejected)}
  ELSE {next_loop(g)}

\* The three functions below are called by RecordHunter::hunt but are not part
\* of seed_generator.rs as it stands; they follow the specification (section
\* "Seed generator / filter").

\* up to n consecutive candidates from `current`, below `max` (the first half,
\* then the second)
RECURSIVE raw_batch_from(_, _, _)
raw_batch_from(current, max, n) ==
  IF n = 0 \/ ~BigLess(current, max) THEN <<>>
  ELSE IF n = 1 THEN <<current>>
  ELSE LET first == raw_batch_from(current, max, n \div 2) IN
       first \o raw_batch_from(BigAdd(first[Len(first)], <<1>>), max, n - (n \div 2))

\* next_raw_batch: the un-filtered candidates, and the generator moved past them
next_raw_batch(g, n) ==
  LET batch == raw_batch_from(g.current, g.max, n) IN
  [batch |-> batch,
   generator |-> IF batch = <<>> THEN g
                 ELSE [g EXCEPT !.current = BigAdd(batch[Len(batch)], <<1>>)]]

\* p10_max = 10^(d-1)
current_p10_max(g) == Pow10(g.digits - 1)

\* the orbit-representative rule reverse(n) >= n: the top and the bottom digit
\* decide unless they tie (p10_max gives the top digit of a candidate of the
\* generator's width)
is_potential_seed(n, p10_max) ==
  LET first_digit == IF Len(n) < Len(p10_max) THEN 0 ELSE n[1]
      last_digit == n[Len(n)]
  IN IF last_digit < first_digit THEN FALSE
     ELSE IF last_digit > first_digit THEN TRUE
     ELSE ~BigLess(reverse_number(n), n)

---------------------------------------------------------------------------
(* The record hunt (src/src/record_hunt.rs) *)

\* n / 2 on the decimal string: the remainder carried into a digit is the
\* parity of the digit before it
Halve(n) ==
  ParseDigits([i \in 1..Len(n) |->
                 ((IF i > 1 THEN (n[i - 1] % 2) * 10 ELSE 0) + n[i]) \div 2] \o <<>>)

\* n halved k times
RECURSIVE HalveTimes(_, _)
HalveTimes(n, k) ==
  IF k = 0 \/ n = <<0>> THEN n
  ELSE IF k = 1 THEN Halve(n)
  ELSE HalveTimes(HalveTimes(n, k \div 2), k - (k \div 2))

\* the number of halvings that bring n to zero, known to be above lo and at
\* most hi
RECURSIVE bits_between(_, _, _)
bits_between(n, lo, hi) ==
  IF hi - lo <= 1 THEN hi
  ELSE LET mid == (lo + hi) \div 2 IN
       IF HalveTimes(n, mid) = <<0>> THEN bits_between(n, lo, mid)
       ELSE bits_between(n, mid, hi)

\* BigUint::bits: the length of the binary representation (0 for zero); a
\* number of d decimal digits has at most 4 * d bits
bits(n) == IF n = <<0>> THEN 0 ELSE bits_between(n, 0, 4 * Len(n))

quick_iterations == 50
growth_bits == 66
promising_min == 200
default_cache_size == 1000000
default_checkpoint_interval == 1000000

HuntConfig(min_digits, max_digits, target_iterations, max_iterations, target_final_digits, cache_size, checkpoint_interval) ==
  [min_digits |-> min_digits, max_digits |-> max_digits,
   target_iterations |-> target_iterations, max_iterations |-> max_iterations,
   target_final_digits |-> target_final_digits, cache_size |-> cache_size,
   checkpoint_interval |-> checkpoint_interval]

\* RecordHunter::new.  `state` is the position of the program ("hunting": in
\* the loop of hunt, "done": hunt has returned); `record_files` and
\* `checkpoint` are the files written by handle_record_found and
\* save_checkpoint (the time stamp found_at is left out).
RecordHunter_new(config) ==
  [state |-> "hunting",
   min_digits |-> config.min_digits, max_digits |-> config.max_digits,
   current_digits |-> config.min_digits, current_range_tested |-> 0,
   target_iterations |-> config.target_iterations,
   max_iterations |-> config.max_iterations,
   target_final_digits |-> config.target_final_digits,
   thread_cache |-> ThreadCache_new(config.cache_size),
   seed_generator |-> SeedGenerator_new(config.min_digits, "Sequential"),
   stats |-> [numbers_tested |-> 0, seeds_tested |-> 0, cache_hits |-> 0,
              cache_misses |-> 0, best_iterations_found |-> 0,
              best_digits_found |-> 0, candidates_above_200 |-> <<>>],
   checkpoint_interval |-> config.checkpoint_interval,
   record_files |-> {}, checkpoint |-> None]

ProcessResult(number, iterations, final_digits, is_record, is_promising) ==
  [number |-> number, iterations |-> iterations, final_digits |-> final_digits,
   is_record |-> is_record, is_promising |-> is_promising]

RecordCandidate(res) ==
  [number |-> res.number, iterations |-> res.iterations, final_digits |-> res.final_digits]

\* the ProcessResult made from the IterationResult of the full test
process_result(candidate, result, config) ==
  LET final_digits == IF IsSome(result.final_number)
                      THEN NumDigits(Unwrap(result.final_number)) ELSE 0
      is_record == /\ result.is_palindrome
                   /\ result.iterations >= config.target_iterations
                   /\ result.iterations <= config.max_iterations
                   /\ final_digits >= config.target_final_digits
      is_promising == result.is_palindrome /\ result.iterations >= promising_min
  IN ProcessResult(candidate, result.iterations, final_digits, is_record, is_promising)

\* a version without the test `quick_result.is_palindrome`
process_candidate_growth_only(candidate, c, config) ==
  LET quick_result == lychrel_iteration(candidate, quick_iterations)
      start_bits == bits(candidate)
      end_bits == IF IsSome(quick_result.final_number)
                  THEN bits(Unwrap(quick_result.final_number)) ELSE 0
  IN IF end_bits - start_bits < growth_bits THEN {[result |-> None, cache |-> c]}
     ELSE {[result |-> Some(process_result(candidate, o.result, config)), cache |-> o.cache] :
             o \in lychrel_iteration_with_cache(candidate, config.max_iterations, c)}

\* process_candidate: the quick filter, then the full test with the worker's
\* cache; the outcomes it can have, each an optional ProcessResult and the cache.
\* (record_hunt.rs passes lychrel_iteration_with_cache a fourth argument, None,
\* that the function in lychrel.rs does not take; the three-argument function
\* is the one modelled.)
process_candidate(candidate, c, config) ==
  LET quick_result == lychrel_iteration(candidate, quick_iterations)
      start_bits == bits(candidate)
      end_bits == IF IsSome(quick_result.final_number)
                  THEN bits(Unwrap(quick_result.final_number)) ELSE 0
  IN IF end_bits - start_bits < growth_bits THEN {[result |-> None, cache |-> c]}
     ELSE IF quick_result.is_palindrome THEN {[result |-> None, cache |-> c]}
     ELSE {[result |-> Some(process_result(candidate, o.result, config)), cache |-> o.cache] :
             o \in lychrel_iteration_with_cache(candidate, config.max_iterations, c)}

\* the accumulator of one worker of the parallel fold
Acc(results, c, seeds_tested, max_i, max_d) ==
  [results |-> results, cache |-> c, seeds_tested |-> seeds_tested,
   max_i |-> max_i, max_d |-> max_d]

\* the fold closure on one candidate: the accumulators it can return
fold_step(acc, candidate, config, p10_max) ==
  IF ~is_potential_seed(candidate, p10_max) THEN {acc}
  ELSE {IF IsSome(o.result)
        THEN LET r == Unwrap(o.result) IN
             Acc(IF r.is_record \/ r.is_promising THEN Append(acc.results, r)
                 ELSE acc.results,
                 o.cache, acc.seeds_tested + 1,
                 Max(acc.max_i, r.iterations), Max(acc.max_d, r.final_digits))
        ELSE Acc(acc.results, o.cache, acc.seeds_tested + 1, acc.max_i, acc.max_d) :
          o \in process_candidate(candidate, acc.cache, config)}

\* one worker folding its share of the batch, in order
RECURSIVE fold_worker(_, _, _, _)
fold_worker(accs, candidates, config, p10_max) ==
  IF candidates = <<>> THEN accs
  ELSE fold_worker(UNION {fold_step(a, Head(candidates), config, p10_max) : a \in accs},
                   Tail(candidates), config, p10_max)

\* a reduce that keeps the cache of the left value only
reduce_step_left_cache(a, b) ==
  {Acc(a.results \o b.results, a.cache, a.seeds_tested + b.seeds_tested,
       Max(a.max_i, b.max_i), Max(a.max_d, b.max_d))}

\* the reduce closure
reduce_step(a, b) ==
  {Acc(a.results \o b.results, c, a.seeds_tested + b.seeds_tested,
       Max(a.max_i, b.max_i), Max(a.max_d, b.max_d)) : c \in merge(a.cache, b.cache)}

\* The parallel fold and reduce of a batch that is split after the positions
\* `cuts`: the share that starts after position `from` is folded by a worker of
\* its own and reduced into `accs`, then the shares that follow.
RECURSIVE fold_reduce(_, _, _, _, _, _, _)
fold_reduce(accs, raw_batch, from, cuts, snapshot, config, p10_max) ==
  IF from >= Len(raw_batch) THEN accs
  ELSE LET later == {k \in cuts : k > from}
           to == IF later = {} THEN Len(raw_batch)
                 ELSE CHOOSE k \in later : \A m \in later : k <= m
           workers == fold_worker({Acc(<<>>, new_worker(snapshot, worker_cache_size), 0, 0, 0)},
                                  SubSeq(raw_batch, from + 1, to), config, p10_max)
       IN fold_reduce(UNION {reduce_step(a, b) : a \in accs, b \in workers},
                      raw_batch, to, cuts, snapshot, config, p10_max)

\* the values fold and reduce can give for a batch split after `cuts`
process_batch(raw_batch, cuts, snapshot, config, p10_max) ==
  fold_reduce({Acc(<<>>, new_empty(worker_cache_size), 0, 0, 0)},
              raw_batch, 0, cuts, snapshot, config, p10_max)

\* is_multiple_of
is_multiple_of(n, d) == IF d = 0 THEN n = 0 ELSE n % d = 0

\* what save_checkpoint writes: the checkpoint and the cache file
save_checkpoint(h) ==
  [h EXCEPT !.checkpoint =
     Some([current_number |-> h.seed_generator.current,
           current_digits |-> h.current_digits,
           stats |-> h.stats,
           cache_size |-> len(h.thread_cache),
           cache_file |-> save_to_file(h.thread_cache)])]

\* handle_record_found for the records among the results, in order: each
\* writes the file record_<iterations>_iter.json
RECURSIVE records_found(_, _)
records_found(files, results) ==
  IF results = <<>> THEN files
  ELSE LET res == Head(results) IN
       records_found(IF res.is_record
                     THEN {f \in files : f.iterations # res.iterations}
                            \cup {RecordCandidate(res)}
                     ELSE files,
                     Tail(results))

\* the promising results appended to candidates_above_200, in order
RECURSIVE promising_found(_, _)
promising_found(candidates, results) ==
  IF results = <<>> THEN candidates
  ELSE promising_found(IF Head(results).is_promising
                       THEN Append(candidates, RecordCandidate(Head(results)))
                       ELSE candidates,
                       Tail(results))

\* a version that adds the seeds tested, not the size of the batch, to
\* numbers_tested
update_state_counting_seeds(h, generator, c, acc, actual_batch_size) ==
  LET stats == [h.stats EXCEPT
                  !.numbers_tested = @ + acc.seeds_tested,
                  !.seeds_tested = @ + acc.seeds_tested,
                  !.best_iterations_found = Max(@, acc.max_i),
                  !.best_digits_found = Max(@, acc.max_d),
                  !.candidates_above_200 = promising_found(@, acc.results),
                  !.cache_hits = c.hits,
                  !.cache_misses = c.misses]
      h2 == [h EXCEPT !.seed_generator = generator,
                      !.thread_cache = c,
                      !.stats = stats,
                      !.current_range_tested = @ + actual_batch_size,
                      !.record_files = records_found(@, acc.results)]
  IN IF is_multiple_of(stats.numbers_tested, h.checkpoint_interval)
     THEN save_checkpoint(h2) ELSE h2

\* step 4 and 5 of the loop of hunt: the hunter after a batch whose fold and
\* reduce gave `acc`, with the generator `generator` and the cache `c`
update_state(h, generator, c, acc, actual_batch_size) ==
  LET stats == [h.stats EXCEPT
                  !.numbers_tested = @ + actual_batch_size,
                  !.seeds_tested = @ + acc.seeds_tested,
                  !.best_iterations_found = Max(@, acc.max_i),
                  !.best_digits_found = Max(@, acc.max_d),
                  !.candidates_above_200 = promising_found(@, acc.results),
                  !.cache_hits = c.hits,
                  !.cache_misses = c.misses]
      h2 == [h EXCEPT !.seed_generator = generator,
                      !.thread_cache = c,
                      !.stats = stats,
                      !.current_range_tested = @ + actual_batch_size,
                      !.record_files = records_found(@, acc.results)]
  IN IF is_multiple_of(stats.numbers_tested, h.checkpoint_interval)
     THEN save_checkpoint(h2) ELSE h2

\* finalize
finalize(h) ==
  [numbers_tested |-> h.stats.numbers_tested,
   seeds_tested |-> h.stats.seeds_tested,
   records |-> SelectSeq(h.stats.candidates_above_200,
                         LAMBDA c : /\ c.iterations >= h.target_iterations
                                    /\ c.final_digits >= h.target_final_digits),
   candidates_above_200 |-> h.stats.candidates_above_200,
   best_iterations_found |-> h.stats.best_iterations_found]

---------------------------------------------------------------------------
(* SpecHunt: the loop of RecordHunter::hunt, batch by batch, for every split *)
(* of a batch among the workers                                              *)

BatchSize == 7       \* SpecHunt: candidates pulled per batch (batch_size, scaled)
MaxWorkers == 2      \* SpecHunt: a batch is split into at most MaxWorkers shares
MaxBatches == 3      \* SpecHunt: number of passes through the loop of hunt

\* Where the generator stands when hunt is entered: before 196 (no palindrome),
\* at the end of the 3-digit numbers, before 10911 (palindrome after 55 steps),
\* and at 18897, whose orbit meets that of 18903.
HuntStarts == {ToDigits(n) : n \in {190, 994, 10905, 18897}}

\* bounds of the full test: the admission threshold and twice as much
HuntBounds == {should_cache_min, 2 * should_cache_min}

\* the targets of a record: those of 10911 (55 steps, 28 digits)
HuntConfigsFor(starts) ==
  {HuntConfig(Len(start), max_digits, 55, max_iterations, 28, default_cache_size,
              checkpoint_interval) :
     start \in starts,
     max_digits \in {None, Some(1), Some(2), Some(3), Some(4), Some(5)},
     max_iterations \in HuntBounds,
     checkpoint_interval \in {BatchSize, default_checkpoint_interval}}

HuntConfigs == HuntConfigsFor(HuntStarts)

\* the ways to split a batch of n candidates among at most `workers` shares:
\* the positions after which a new share begins
CutsFor(n, workers) == {C \in SUBSET (1..(n - 1)) : Cardinality(C) < workers}

Cuts(n) == CutsFor(n, MaxWorkers)

\* what the workers and the hunter can see of a batch
Outcome(acc) ==
  [results |-> {acc.results[i] : i \in 1..Len(acc.results)},
   seeds_tested |-> acc.seeds_tested, max_i |-> acc.max_i, max_d |-> acc.max_d]

Init_HuntFrom(starts) ==
  /\ \E config \in HuntConfigsFor(starts), start \in starts :
       /\ Len(start) = config.min_digits
       /\ IF IsSome(config.max_digits)
          THEN Unwrap(config.max_digits) \in {config.min_digits, config.min_digits + 1}
          ELSE TRUE
       /\ hunter = [RecordHunter_new(config) EXCEPT
                      !.seed_generator = from_checkpoint(config.min_digits, start)]
       /\ args = [start |-> start]
  /\ last = NoOp
  /\ runs = 0
  /\ ret = None
  /\ cache = ThreadCache_new(0)
  /\ other = ThreadCache_new(0)

Init_Hunt == Init_HuntFrom(HuntStarts)

\* one pass through the loop with a batch: snapshot, fold and reduce over the
\* shares, merge, statistics, records, checkpoint; the batch is split among at
\* most `workers` shares
HuntBatchAmong(workers) ==
  /\ hunter.state = "hunting"
  /\ runs < MaxBatches
  /\ LET pulled == next_raw_batch(hunter.seed_generator, BatchSize)
         raw_batch == pulled.batch
         snap == take_snapshot(hunter.thread_cache)
         p10_max == current_p10_max(pulled.generator)
         config == [max_iterations |-> hunter.max_iterations,
                    target_iterations |-> hunter.target_iterations,
                    target_final_digits |-> hunter.target_final_digits]
     IN /\ raw_batch # <<>>
        /\ \E cuts \in CutsFor(Len(raw_batch), workers) :
             \E acc \in process_batch(raw_batch, cuts, snap.handle, config, p10_max) :
               \E c \in merge(snap.cache, acc.cache) :
                 /\ hunter' = update_state(hunter, pulled.generator, c, acc, Len(raw_batch))
                 /\ last' = [op |-> "batch", raw_batch |-> raw_batch, cuts |-> cuts,
                             snapshot |-> snap.handle,
                             tested_before |-> hunter.stats.numbers_tested,
                             prev_snapshot |-> IF last.op = "batch"
                                               THEN Some(last.snapshot) ELSE None,
                             outcome |-> Outcome(acc),
                             one_worker |->
                               {Outcome(a) : a \in process_batch(raw_batch, {}, snap.handle,
                                                                 config, p10_max)}]
  /\ runs' = runs + 1
  /\ UNCHANGED <<args, ret, cache, other>>

HuntBatch == HuntBatchAmong(MaxWorkers)

\* a move to the next digit size that forgets to raise current_digits
next_digit_size_same_width(h) ==
  [h EXCEPT !.current_range_tested = 0,
            !.seed_generator = SeedGenerator_new(h.current_digits, h.seed_generator.mode)]

\* a move to the next digit size that builds the generator for the old width
next_digit_size_old_width(h) ==
  [h EXCEPT !.current_range_tested = 0,
            !.current_digits = @ + 1,
            !.seed_generator = SeedGenerator_new(h.current_digits, h.seed_generator.mode)]

\* the move to the next digit size, made when the batch is empty
next_digit_size(h) ==
  [h EXCEPT !.current_range_tested = 0,
            !.current_digits = @ + 1,
            !.seed_generator = SeedGenerator_new(h.current_digits + 1, h.seed_generator.mode)]

\* the batch is empty and a wider range follows
HuntNextDigits ==
  /\ hunter.state = "hunting"
  /\ runs < MaxBatches
  /\ next_raw_batch(hunter.seed_generator, BatchSize).batch = <<>>
  /\ IsSome(hunter.max_digits)
  /\ hunter.current_digits < Unwrap(hunter.max_digits)
  /\ hunter' = next_digit_size(hunter)
  /\ last' = [op |-> "next_digits"]
  /\ runs' = runs + 1
  /\ UNCHANGED <<args, ret, cache, other>>

\* the batch is empty and no range follows: hunt returns finalize()
HuntFinish ==
  /\ hunter.state = "hunting"
  /\ next_raw_batch(hunter.seed_generator, BatchSize).batch = <<>>
  /\ ~(IsSome(hunter.max_digits) /\ hunter.current_digits < Unwrap(hunter.max_digits))
  /\ hunter' = [hunter EXCEPT !.state = "done"]
  /\ ret' = Some(finalize(hunter))
  /\ last' = [op |-> "finish"]
  /\ UNCHANGED <<args, cache, other, runs>>

Next_Hunt == HuntBatch \/ HuntNextDigits \/ HuntFinish

SpecHunt == Init_Hunt /\ [][Next_Hunt]_vars

\* C5: for a fixed batch and a fixed hunter cache, the outcome of the batch (the
\* record and promising results with their iterations and final_digits,
\* seeds_tested, the best iterations and the best digits) is the same for every
\* split of the candidates among workers: it is the outcome one worker gives.
C5_BatchOutcomeIndependentOfSplit ==
  last.op = "batch" => last.outcome \in last.one_worker

\* C6: the shared snapshot only grows: every key of the snapshot handed to the
\* workers of a batch is a key of the snapshot handed to the workers of the next.
C6_SnapshotOnlyGrows ==
  (last.op = "batch" /\ IsSome(last.prev_snapshot))
    => DOMAIN Unwrap(last.prev_snapshot) \subseteq DOMAIN last.snapshot

\* the elements of a sequence
Range(seq) == {seq[i] : i \in DOMAIN seq}

\* C21: every result for which is_record held (it was passed to
\* handle_record_found) is in statistics.candidates_above_200 and in the
\* records of the HuntResults the hunter returns.
C21_RecordsArePromising ==
  \A f \in hunter.record_files :
    /\ f \in Range(hunter.stats.candidates_above_200)
    /\ f \in Range(finalize(hunter).records)

\* the batch that was just made ended with save_checkpoint
CheckpointJustSaved ==
  /\ last.op = "batch"
  /\ IsSome(hunter.checkpoint)
  /\ Unwrap(hunter.checkpoint).stats.numbers_tested = hunter.stats.numbers_tested

\* the keys of both planes of a cache
AllKeys(c) ==
  DOMAIN c.known_values \cup (IF IsSome(c.snapshot) THEN DOMAIN Unwrap(c.snapshot) ELSE {})

\* C24: the cache file written by save_checkpoint holds every entry of the
\* hunter's cache at that moment, of the local plane and of the snapshot plane.
C24_CacheFileHoldsBothPlanes ==
  CheckpointJustSaved
    => \A k \in AllKeys(hunter.thread_cache) :
         to_string(k) \in DOMAIN Unwrap(hunter.checkpoint).cache_file

---------------------------------------------------------------------------
(* SpecShared: a producing cache that has taken a snapshot, and a worker  *)
(* cache built on the handle (the situation of hunt between take_snapshot *)
(* and the merge that ends the batch)                                     *)

MaxSteps == 2        \* SpecShared: number of operations made

\* a load that keeps no more entries than max_size
load_from_file_capped(string_map, max_size) ==
  LET keys == {unwrap_or_default(parse_BigUint(str)) : str \in DOMAIN string_map}
      kept == CHOOSE S \in SUBSET keys : Cardinality(S) = Min(max_size, Cardinality(keys))
  IN [known_values |->
        [k \in kept |->
           string_map[CHOOSE str \in DOMAIN string_map :
                        unwrap_or_default(parse_BigUint(str)) = k]],
      snapshot |-> None, max_cache_size |-> max_size, hits |-> 0, misses |-> 0]

\* load_from_file, once the file has been read as a map of strings: each key
\* is parsed, a key that does not parse becomes zero (of the strings that give
\* one key, one keeps its entry)
load_from_file(string_map, max_size) ==
  [known_values |->
     [k \in {unwrap_or_default(parse_BigUint(str)) : str \in DOMAIN string_map} |->
        string_map[CHOOSE str \in DOMAIN string_map :
                     unwrap_or_default(parse_BigUint(str)) = k]],
   snapshot |-> None, max_cache_size |-> max_size, hits |-> 0, misses |-> 0]

\* the saved caches: some of the keys, on a thread that reached no palindrome
SavedMaps ==
  {[str \in {to_string(k) : k \in S} |->
      ThreadInfo(ToDigits(1), 0, should_cache_min, 2, FALSE, None)] :
     S \in SUBSET Keys}

\* The producer was loaded, has taken its snapshot (args.handle) and a worker
\* was built on the handle; or the worker is the empty cache of the reduce.
\* args.handle is the handle as take_snapshot returned it, args.latest the
\* handle of the producer's latest take_snapshot.
Init_Shared ==
  /\ \E saved \in SavedMaps, max_size \in 0..MaxCap, on_handle \in BOOLEAN :
       LET snap == take_snapshot(load_from_file(saved, max_size)) IN
       /\ cache = snap.cache
       /\ args = [handle |-> snap.handle, latest |-> snap.handle]
       /\ other = IF on_handle THEN new_worker(snap.handle, max_size)
                  ELSE new_empty(max_size)
  /\ hunter = NoHunter
  /\ last = NoOp
  /\ runs = 0
  /\ ret = None

\* worker.add_thread(path, info)
WorkerAdd(path, info) ==
  /\ runs < MaxSteps
  /\ \E c2 \in add_thread(other, path, info) : other' = c2
  /\ last' = [op |-> "worker_add", pre |-> other]
  /\ runs' = runs + 1
  /\ UNCHANGED <<hunter, args, ret, cache>>

\* worker.check(value)
WorkerCheck(value) ==
  /\ runs < MaxSteps
  /\ other' = check(other, value).cache
  /\ last' = [op |-> "check", value |-> value, info |-> check(other, value).info,
              pre |-> other]
  /\ runs' = runs + 1
  /\ UNCHANGED <<hunter, args, ret, cache>>

\* producer.add_thread(path, info)
ProducerAdd(path, info) ==
  /\ runs < MaxSteps
  /\ \E c2 \in add_thread(cache, path, info) : cache' = c2
  /\ last' = [op |-> "producer_add", pre |-> cache]
  /\ runs' = runs + 1
  /\ UNCHANGED <<hunter, args, ret, other>>

\* producer.take_snapshot(), while the worker keeps the handle it was built on
ProducerSnapshot ==
  /\ runs < MaxSteps
  /\ cache' = take_snapshot(cache).cache
  /\ args' = [args EXCEPT !.latest = take_snapshot(cache).handle]
  /\ last' = [op |-> "producer_snapshot", pre |-> cache]
  /\ runs' = runs + 1
  /\ UNCHANGED <<hunter, ret, other>>

\* producer.merge(worker): the worker is moved into the call; a new worker on
\* the same handle takes its place
ProducerMerge ==
  /\ runs < MaxSteps
  /\ \E c2 \in merge(cache, other) : cache' = c2
  /\ other' = IF IsSome(other.snapshot)
              THEN new_worker(Unwrap(other.snapshot), other.max_cache_size)
              ELSE new_empty(other.max_cache_size)
  /\ last' = [op |-> "producer_merge", pre |-> cache]
  /\ runs' = runs + 1
  /\ UNCHANGED <<hunter, args, ret>>

Next_Shared ==
  \/ \E path \in Paths, info \in Infos : WorkerAdd(path, info)
  \/ \E value \in Keys : WorkerCheck(value)
  \/ \E path \in Paths, info \in Infos : ProducerAdd(path, info)
  \/ ProducerSnapshot
  \/ ProducerMerge

SpecShared == Init_Shared /\ [][Next_Shared]_vars

\* the value looked up is a key of the snapshot plane
InSnapshot(c, value) == IsSome(c.snapshot) /\ value \in DOMAIN Unwrap(c.snapshot)

\* C11: check(v) adds exactly 1 to exactly one of hits and misses and changes no
\* entry of either plane; it adds to hits, and returns the entry, when v is a
\* key of the local plane (the local entry is returned) or else of the snapshot
\* plane, and adds to misses, and returns None, when v is in neither.
C11_CheckCountsOnce ==
  last.op = "check" =>
    LET pre == last.pre
        v == last.value
        found == v \in DOMAIN pre.known_values \/ InSnapshot(pre, v)
    IN /\ other.known_values = pre.known_values
       /\ other.snapshot = pre.snapshot
       /\ other.max_cache_size = pre.max_cache_size
       /\ other.hits = pre.hits + (IF found THEN 1 ELSE 0)
       /\ other.misses = pre.misses + (IF found THEN 0 ELSE 1)
       /\ last.info = IF v \in DOMAIN pre.known_values THEN Some(pre.known_values[v])
                      ELSE IF InSnapshot(pre, v) THEN Some(Unwrap(pre.snapshot)[v])
                      ELSE None

\* a lookup of a value that both planes hold, with different entries
C11_Witness ==
  /\ last.op = "check"
  /\ last.value \in DOMAIN last.pre.known_values
  /\ InSnapshot(last.pre, last.value)
  /\ last.pre.known_values[last.value] # Unwrap(last.pre.snapshot)[last.value]
  /\ other.hits = 1

\* C12: the handle returned by take_snapshot is never changed: whatever
\* add_thread, merge, eviction or take_snapshot is made on the producing cache,
\* and whatever add_thread or eviction on the worker built on the handle, the
\* worker's snapshot plane is the handle as it was returned, and the producer's
\* snapshot plane is the handle of its latest take_snapshot.
C12_HandleNeverChanged ==
  /\ IsSome(other.snapshot) => Unwrap(other.snapshot) = args.handle
  /\ cache.snapshot = Some(args.latest)

\* the worker has admitted keys of the handle to its local plane, and the
\* producer has since taken another snapshot
C12_Witness ==
  /\ IsSome(other.snapshot)
  /\ args.handle # EmptyMap
  /\ args.latest # args.handle
  /\ other.known_values # EmptyMap
  /\ DOMAIN other.known_values \subseteq DOMAIN args.handle

---------------------------------------------------------------------------
(* SpecFold: a batch of hunt step by step: the hunter takes the snapshot and *)
(* hands the shares to the workers, the workers fold their shares one        *)
(* candidate at a time in any interleaving, finished neighbours are reduced  *)
(* pairwise in any order, and the hunter merges the reduced value            *)

\* The hunts of SpecFold: one width, default checkpoint interval, the full test
\* bounded by the admission threshold
FoldConfigs ==
  {config \in HuntConfigs :
     /\ ~IsSome(config.max_digits)
     /\ config.checkpoint_interval = default_checkpoint_interval
     /\ config.max_iterations = should_cache_min}

\* a share of the batch with the accumulator of the worker that folds it
Piece(acc, todo) == [acc |-> acc, todo |-> todo]

\* the shares of a batch split after the positions `cuts`, in order
RECURSIVE Shares(_, _, _)
Shares(raw_batch, from, cuts) ==
  IF from >= Len(raw_batch) THEN <<>>
  ELSE LET later == {k \in cuts : k > from}
           to == IF later = {} THEN Len(raw_batch)
                 ELSE CHOOSE k \in later : \A m \in later : k <= m
       IN <<SubSeq(raw_batch, from + 1, to)>> \o Shares(raw_batch, to, cuts)

\* the counters and the keys of a worker cache
Counters(c) == [hits |-> c.hits, misses |-> c.misses, keys |-> DOMAIN c.known_values]

RECURSIVE SumOf(_, _)
SumOf(seq, field) ==
  IF seq = <<>> THEN 0 ELSE seq[1][field] + SumOf(Tail(seq), field)

Init_Fold ==
  /\ \E config \in FoldConfigs, start \in HuntStarts :
       /\ Len(start) = config.min_digits
       /\ hunter = [RecordHunter_new(config) EXCEPT
                      !.seed_generator = from_checkpoint(config.min_digits, start)]
  /\ last = NoOp
  /\ runs = 0
  /\ args = None
  /\ ret = None
  /\ cache = ThreadCache_new(0)
  /\ other = <<>>

\* steps 1 and 2 of the loop of hunt, and the start of the parallel fold: every
\* share gets a worker with a cache of its own on the snapshot.  args keeps
\* what the closures capture, the hunter as the workers start, and the counters
\* of the workers that have finished their share.
BeginBatch ==
  /\ hunter.state = "hunting"
  /\ runs < MaxBatches
  /\ LET pulled == next_raw_batch(hunter.seed_generator, BatchSize)
         raw_batch == pulled.batch
         snap == take_snapshot(hunter.thread_cache)
         started == [hunter EXCEPT !.state = "folding",
                                   !.seed_generator = pulled.generator,
                                   !.thread_cache = snap.cache]
     IN /\ raw_batch # <<>>
        /\ \E cuts \in Cuts(Len(raw_batch)) :
             LET shares == Shares(raw_batch, 0, cuts) IN
             other' = [i \in 1..Len(shares) |->
                         Piece(Acc(<<>>, new_worker(snap.handle, worker_cache_size), 0, 0, 0),
                               shares[i])]
        /\ hunter' = started
        /\ args' = [raw_batch |-> raw_batch, snapshot |-> snap.handle,
                    p10_max |-> current_p10_max(pulled.generator),
                    config |-> [max_iterations |-> hunter.max_iterations,
                                target_iterations |-> hunter.target_iterations,
                                target_final_digits |-> hunter.target_final_digits],
                    started |-> started, finished |-> <<>>]
  /\ last' = [op |-> "begin_batch"]
  /\ runs' = runs + 1
  /\ UNCHANGED <<ret, cache>>

\* a worker folds the next candidate of its share
WorkerStep(i) ==
  /\ hunter.state = "folding"
  /\ other[i].todo # <<>>
  /\ \E acc \in fold_step(other[i].acc, Head(other[i].todo), args.config, args.p10_max) :
       /\ other' = [other EXCEPT ![i] = Piece(acc, Tail(other[i].todo))]
       /\ args' = IF Tail(other[i].todo) = <<>>
                  THEN [args EXCEPT !.finished = Append(@, Counters(acc.cache))]
                  ELSE args
  /\ last' = [op |-> "worker_step"]
  /\ UNCHANGED <<hunter, ret, cache, runs>>

\* two neighbours that have finished are reduced into one
ReducePair(i) ==
  /\ hunter.state = "folding"
  /\ i < Len(other)
  /\ other[i].todo = <<>> /\ other[i + 1].todo = <<>>
  /\ \E acc \in reduce_step(other[i].acc, other[i + 1].acc) :
       other' = SubSeq(other, 1, i - 1) \o <<Piece(acc, <<>>)>>
                  \o SubSeq(other, i + 2, Len(other))
  /\ last' = [op |-> "reduce"]
  /\ UNCHANGED <<hunter, args, ret, cache, runs>>

\* the fold has joined: steps 4 and 5 of the loop of hunt
EndBatch ==
  /\ hunter.state = "folding"
  /\ Len(other) = 1
  /\ other[1].todo = <<>>
  /\ \E acc \in reduce_step(Acc(<<>>, new_empty(worker_cache_size), 0, 0, 0), other[1].acc) :
       \E c \in merge(hunter.thread_cache, acc.cache) :
         hunter' = update_state([hunter EXCEPT !.state = "hunting"], hunter.seed_generator,
                                c, acc, Len(args.raw_batch))
  /\ other' = <<>>
  /\ last' = [op |-> "end_batch", started |-> args.started, finished |-> args.finished]
  /\ UNCHANGED <<args, ret, cache, runs>>

Next_Fold ==
  \/ BeginBatch
  \/ \E i \in 1..MaxWorkers : i <= Len(other) /\ WorkerStep(i)
  \/ \E i \in 1..MaxWorkers : ReducePair(i)
  \/ EndBatch

SpecFold == Init_Fold /\ [][Next_Fold]_vars

\* C13: while the workers of a batch run, the hunter's cache (both planes and
\* the counters) and statistics are as they were when the workers started; what
\* the workers admitted reaches the hunter only with the merge after the fold:
\* the hunter's local plane then holds keys of the workers' caches only.
C13_HunterUntouchedByWorkers ==
  /\ hunter.state = "folding" => hunter = args.started
  /\ last.op = "end_batch" =>
       DOMAIN hunter.thread_cache.known_values
         \subseteq UNION {last.finished[i].keys : i \in 1..Len(last.finished)}

\* two workers are running, one has admitted a thread to its cache, and the
\* hunter's local plane is still empty
C13_Witness ==
  /\ hunter.state = "folding"
  /\ Len(other) = 2
  /\ other[2].todo # <<>>
  /\ other[1].acc.cache.known_values # EmptyMap
  /\ hunter.thread_cache.known_values = EmptyMap

\* C14: after the merge that ends a batch the hunter cache's hits and misses
\* are their values before the batch plus the sums of the counters of all
\* worker caches of the batch, for every split and every order of reduction.
C14_CountersAdd ==
  last.op = "end_batch" =>
    /\ hunter.thread_cache.hits
         = last.started.thread_cache.hits + SumOf(last.finished, "hits")
    /\ hunter.thread_cache.misses
         = last.started.thread_cache.misses + SumOf(last.finished, "misses")
    /\ hunter.stats.cache_hits = hunter.thread_cache.hits
    /\ hunter.stats.cache_misses = hunter.thread_cache.misses

\* a batch of two workers that counted misses, ended on a hunter that had
\* counted hits and misses in an earlier batch
C14_Witness ==
  /\ last.op = "end_batch"
  /\ Len(last.finished) = 2
  /\ last.started.thread_cache.hits > 0
  /\ last.started.thread_cache.misses > 0
  /\ SumOf(last.finished, "misses") > 0

---------------------------------------------------------------------------
(* SpecSeed: calls of next on a generator made by SeedGenerator::new *)

MaxDigits == 2        \* widths of the generators
MaxRandomCalls == 1   \* SmartRandom never runs out: calls of next followed

Init_Seed ==
  /\ \E digits \in 1..MaxDigits, mode \in GeneratorMode :
       args = SeedGenerator_new(digits, mode)
  /\ ret = None
  /\ other = <<>>
  /\ last = NoOp
  /\ runs = 0
  /\ cache = ThreadCache_new(0)
  /\ hunter = NoHunter

\* one call of next; `other` keeps the values returned so far, `ret` what the
\* call returned
CallNext ==
  /\ args.mode = "SmartRandom" => args.generated_count < MaxRandomCalls
  /\ \E o \in SeedGenerator_next(args) :
       /\ args' = o.generator
       /\ ret' = o.value
       /\ other' = IF IsSome(o.value) THEN Append(other, Unwrap(o.value)) ELSE other
       /\ last' = [op |-> "next", pre |-> args, ended |-> last.op = "next" /\ ret = None]
  /\ UNCHANGED <<cache, hunter, runs>>

Next_Seed == CallNext

SpecSeed == Init_Seed /\ [][Next_Seed]_vars

\* the number a digit string writes
RECURSIVE DigitsValue(_)
DigitsValue(s) ==
  IF s = <<>> THEN 0 ELSE 10 * DigitsValue(SubSeq(s, 1, Len(s) - 1)) + s[Len(s)]

\* the numbers of d digits whose reverse is not smaller
SeedsOfWidth(d) ==
  {n \in Pow10Value(d - 1)..(Pow10Value(d) - 1) :
     DigitsValue(RevStr(ToDigits(n))) >= n}

\* C16: every value returned by next() of a generator made by
\* SeedGenerator::new(d, mode), in every mode, has exactly d digits and a
\* reverse that is not smaller than it; is_potential_seed(n) is true exactly
\* when reverse_number(n) >= n (compared on every number of the generator's
\* width, once per generator).
C16_ReturnedValuesAreSeeds ==
  /\ (last.op = "next" /\ IsSome(ret)) =>
       LET n == Unwrap(ret) IN
       /\ NumDigits(n) = args.digits
       /\ n[1] # 0
       /\ DigitsValue(reverse_number(n)) >= DigitsValue(n)
  /\ last.op = "none" =>
       {n \in Pow10Value(args.digits - 1)..(Pow10Value(args.digits) - 1) :
          SeedGenerator_is_potential_seed(ToDigits(n))} = SeedsOfWidth(args.digits)

\* a SmartRandom generator of two digits returned a number smaller than its
\* reverse, after a rejected draw
C16_Witness ==
  /\ last.op = "next"
  /\ args.mode = "SmartRandom"
  /\ args.digits = 2
  /\ args.skip_count > 0
  /\ IsSome(ret)
  /\ DigitsValue(reverse_number(Unwrap(ret))) > DigitsValue(Unwrap(ret))

\* C17: in Sequential mode the calls of next return exactly the numbers of
\* [10^(d-1), 10^d) whose reverse is not smaller, in strictly increasing order
\* and each once, and then None on every later call.
C17_SequentialEnumerates ==
  args.mode = "Sequential" =>
    LET below == DigitsValue(args.current)
        values == [i \in 1..Len(other) |-> DigitsValue(other[i])] \o <<>>
        returned == {values[i] : i \in 1..Len(other)}
    IN /\ \A i \in 1..(Len(other) - 1) : values[i] < values[i + 1]
       /\ returned = {n \in SeedsOfWidth(args.digits) : n < below}
       /\ (last.op = "next" /\ ret = None) => returned = SeedsOfWidth(args.digits)
       /\ (last.op = "next" /\ last.ended) => ret = None

\* a Sequential generator of two digits that has returned all its numbers and
\* then None on two calls
C17_Witness ==
  /\ args.mode = "Sequential"
  /\ args.digits = 2
  /\ last.op = "next"
  /\ last.ended
  /\ ret = None
  /\ Len(other) = Cardinality(SeedsOfWidth(2))
  /\ Len(other) > 40

---------------------------------------------------------------------------
(* SpecFilter: is_potential_seed applied to one candidate *)

\* the candidates: every number of up to MaxDigits digits, and 10000
FilterInputs ==
  {ToDigits(n) : n \in 1..(Pow10Value(MaxDigits) - 1)} \cup {ToDigits(10000)}

Init_Filter ==
  /\ args \in FilterInputs
  /\ ret = None
  /\ last = NoOp
  /\ other = <<>>
  /\ runs = 0
  /\ cache = ThreadCache_new(0)
  /\ hunter = NoHunter

\* the filter decides on the candidate; `last` keeps the reverse it computed
Filter ==
  /\ last.op = "none"
  /\ ret' = Some(SeedGenerator_is_potential_seed(args))
  /\ last' = [op |-> "is_potential_seed", reversed |-> reverse_number(args)]
  /\ UNCHANGED <<args, other, runs, cache, hunter>>

Next_Filter == Filter

SpecFilter == Init_Filter /\ [][Next_Filter]_vars

\* C18: every candidate n that the seed filter rejects has the same next
\* iterate as its reverse: n + reverse_number(n) =
\* reverse_number(n) + reverse_number(reverse_number(n)), candidates that end
\* in 0 included.
C18_RejectedSharesNextIterate ==
  (last.op = "is_potential_seed" /\ ret = Some(FALSE)) =>
    BigAdd(args, last.reversed) = BigAdd(last.reversed, reverse_number(last.reversed))

---------------------------------------------------------------------------
(* SpecTally: the loop of RecordHunter::hunt near the ends of the ranges, *)
(* each batch processed by one worker                                      *)

\* where the generator stands when hunt is entered: at 1 and at 10 (new hunters
\* of min_digits 1 and 2), and shortly before the end of the ranges of 1 to 4
\* digits
TallyStarts == {ToDigits(n) : n \in {1, 4, 10, 95, 994, 9990}}

Init_Tally == Init_HuntFrom(TallyStarts)

TallyBatch == HuntBatchAmong(1)

Next_Tally == TallyBatch \/ HuntNextDigits \/ HuntFinish

SpecTally == Init_Tally /\ [][Next_Tally]_vars

\* the widest range the hunt goes through
LastWidth(h) ==
  IF IsSome(h.max_digits) THEN Max(h.min_digits, Unwrap(h.max_digits)) ELSE h.min_digits

\* C19: a hunt in Sequential mode returns with numbers_tested equal to the
\* count of all integers of the widths it went through, from where it began
\* (9 * 10^(d-1) for each whole width d): every batch adds exactly its raw
\* size to numbers_tested, and the batches are the consecutive integers, none
\* left out or taken twice.
C19_NumbersTestedCountsRange ==
  LET begun == DigitsValue(args.start)
      position == DigitsValue(hunter.seed_generator.current)
  IN /\ hunter.stats.numbers_tested = position - begun
     /\ last.op = "batch" =>
          /\ hunter.stats.numbers_tested = last.tested_before + Len(last.raw_batch)
          /\ \A i \in 1..Len(last.raw_batch) :
               DigitsValue(last.raw_batch[i]) = begun + last.tested_before + i - 1
     /\ hunter.state = "done" =>
          /\ Unwrap(ret).numbers_tested = Pow10Value(LastWidth(hunter)) - begun
          /\ hunter.current_digits = LastWidth(hunter)

\* a new hunter of min_digits = max_digits = 1 returned after two batches, with
\* the nine numbers of one digit counted
C19_Witness ==
  /\ hunter.state = "done"
  /\ args.start = Pow10(hunter.min_digits - 1)
  /\ hunter.max_digits = Some(hunter.min_digits)
  /\ runs = 2
  /\ Unwrap(ret).numbers_tested = 9 * Pow10Value(hunter.min_digits - 1)

---------------------------------------------------------------------------
(* SpecRecord: the loop of RecordHunter::hunt around a number of 18 digits *)
(* that reaches its palindrome after 228 steps                             *)

\* 170500000303619996 reaches a palindrome of 112 digits after 228 steps
RecordSeed == <<1, 7, 0, 5, 0, 0, 0, 0, 0, 3, 0, 3, 6, 1, 9, 9, 9, 6>>

\* 170500001203619996 has the same first iterate
RecordSibling == <<1, 7, 0, 5, 0, 0, 0, 0, 1, 2, 0, 3, 6, 1, 9, 9, 9, 6>>

\* the two numbers, and the starts of the batches before theirs
RecordStarts ==
  {RecordSeed, RecordSibling,
   <<1, 7, 0, 5, 0, 0, 0, 0, 0, 3, 0, 3, 6, 1, 9, 9, 8, 9>>,
   <<1, 7, 0, 5, 0, 0, 0, 0, 1, 2, 0, 3, 6, 1, 9, 9, 8, 9>>}

\* the bound at the 228 steps of RecordSeed and one above; a target of final
\* digits at those of RecordSeed, or none; a checkpoint after every batch
RecordConfigs ==
  {HuntConfig(Len(RecordSeed), None, promising_min, max_iterations, target_final_digits,
              default_cache_size, BatchSize) :
     max_iterations \in {228, 229}, target_final_digits \in {0, 112}}

\* one pass through the loop of hunt with a batch, processed by one worker: the
\* hunters it can leave
hunt_pass(h) ==
  LET pulled == next_raw_batch(h.seed_generator, BatchSize)
      snap == take_snapshot(h.thread_cache)
      config == [max_iterations |-> h.max_iterations,
                 target_iterations |-> h.target_iterations,
                 target_final_digits |-> h.target_final_digits]
  IN UNION {{update_state(h, pulled.generator, c, acc, Len(pulled.batch)) :
               c \in merge(snap.cache, acc.cache)} :
            acc \in process_batch(pulled.batch, {}, snap.handle, config,
                                  current_p10_max(pulled.generator))}

\* the cache files a hunt with this configuration has saved after its batch
\* that begins at RecordSeed
SavedCacheFiles(config) ==
  {Unwrap(h.checkpoint).cache_file :
     h \in hunt_pass([RecordHunter_new(config) EXCEPT
                        !.seed_generator = from_checkpoint(config.min_digits, RecordSeed)])}

\* a hunter at RecordSeed or at RecordSibling; its cache is empty, or was loaded
\* from the file that the hunt saved after the batch of RecordSeed (the batches
\* between the two numbers are not followed)
Init_Record ==
  /\ \E config \in RecordConfigs, start \in RecordStarts :
       \E saved \in {EmptyMap} \cup SavedCacheFiles(config) :
         /\ hunter = [RecordHunter_new(config) EXCEPT
                        !.seed_generator = from_checkpoint(config.min_digits, start),
                        !.thread_cache = load_from_file(saved, config.cache_size)]
         /\ args = [start |-> start]
  /\ last = NoOp
  /\ runs = 0
  /\ ret = None
  /\ cache = ThreadCache_new(0)
  /\ other = ThreadCache_new(0)

RecordBatch == HuntBatchAmong(1)

Next_Record == RecordBatch

SpecRecord == Init_Record /\ [][Next_Record]_vars

\* the record predicate of process_candidate on a RecordCandidate
SatisfiesRecordPredicate(c, h) ==
  /\ c.iterations >= h.target_iterations
  /\ c.iterations <= h.max_iterations
  /\ c.final_digits >= h.target_final_digits

---------------------------------------------------------------------------
(* SpecLive: hunt from RecordHunter::new to its return, over the widths of *)
(* one and two digits, in every generator mode                            *)

\* more numbers than the widths hold: numbers_tested never gets this far
MaxTested == Pow10Value(MaxDigits)

\* the widths of the hunt: from min_digits to max_digits, or min_digits alone
LiveConfigs ==
  {HuntConfig(min_digits, max_digits, 55, max_iterations, 28, default_cache_size,
              checkpoint_interval) :
     min_digits \in 1..MaxDigits,
     max_digits \in {None} \cup {Some(d) : d \in 1..MaxDigits},
     max_iterations \in HuntBounds,
     checkpoint_interval \in {1, BatchSize, default_checkpoint_interval}}

Init_Live ==
  /\ \E config \in LiveConfigs, mode \in GeneratorMode :
       hunter = [RecordHunter_new(config) EXCEPT
                   !.seed_generator = SeedGenerator_new(config.min_digits, mode)]
  /\ args = None
  /\ last = NoOp
  /\ runs = 0
  /\ ret = None
  /\ cache = ThreadCache_new(0)
  /\ other = ThreadCache_new(0)

\* one pass through the loop with a batch
LiveBatch ==
  /\ hunter.state = "hunting"
  /\ hunter.stats.numbers_tested < MaxTested
  /\ next_raw_batch(hunter.seed_generator, BatchSize).batch # <<>>
  /\ hunter' \in hunt_pass(hunter)
  /\ last' = [op |-> "batch"]
  /\ UNCHANGED <<args, ret, cache, other, runs>>

\* the batch is empty and a wider range follows
LiveNextDigits ==
  /\ hunter.state = "hunting"
  /\ next_raw_batch(hunter.seed_generator, BatchSize).batch = <<>>
  /\ IsSome(hunter.max_digits)
  /\ hunter.current_digits < Unwrap(hunter.max_digits)
  /\ hunter' = next_digit_size(hunter)
  /\ last' = [op |-> "next_digits"]
  /\ UNCHANGED <<args, ret, cache, other, runs>>

Next_Live == LiveBatch \/ LiveNextDigits \/ HuntFinish

\* a step of the loop can be made: the hunter is in the loop, and either the
\* batch is empty (the width advances or hunt returns) or a pass with the batch
\* can be made (hunt_pass gives at least one hunter)
LiveEnabled ==
  /\ hunter.state = "hunting"
  /\ \/ next_raw_batch(hunter.seed_generator, BatchSize).batch = <<>>
     \/ hunter.stats.numbers_tested < MaxTested

\* weak fairness of the loop, with the condition under which a step can be
\* made written out: the program keeps running while it is in the loop
LiveFair == []<>(~LiveEnabled) \/ []<><<Next_Live>>_vars

SpecLive == Init_Live /\ [][Next_Live]_vars /\ LiveFair

LastCheckpointAt(h) ==
  IF IsSome(h.checkpoint) THEN Unwrap(h.checkpoint).stats.numbers_tested ELSE 0

\* C23: with checkpoint_interval c > 0, at the end of every batch the numbers
\* tested since the last checkpoint (or the start) are fewer than c: once
\* numbers_tested has grown by c or more, the batch ends with a checkpoint.
C23_CheckpointsKeepComing ==
  (last.op = "batch" /\ hunter.checkpoint_interval > 0)
    => hunter.stats.numbers_tested - LastCheckpointAt(hunter) < hunter.checkpoint_interval

\* C29: a hunter whose configuration has max_iterations < target_iterations
\* never starts work: no candidate is pulled or tested.
C29_BadConfigNeverStarts ==
  hunter.max_iterations < hunter.target_iterations
    => /\ hunter.stats.numbers_tested = 0
       /\ hunter.stats.seeds_tested = 0

---------------------------------------------------------------------------
(* SpecFile: a ThreadCache, the cache file, save_to_file and load_from_file *)

\* std::io::Result
Ok(x) == [ok |-> TRUE, value |-> x]
Err == [ok |-> FALSE]

\* A file is missing (None) or holds JSON for a map of strings, or bytes that
\* are no JSON for one.
JsonFile(string_map) == Some([json |-> TRUE, map |-> string_map])
BrokenFile == Some([json |-> FALSE, map |-> EmptyMap])

\* io_utils::save_to_file: File::create fails and nothing is touched; or the
\* file is created and a write fails inside to_writer_pretty; or all of the
\* data is written; or the data left in the BufWriter is lost when the writer
\* is dropped, which reports no error (nothing flushes it before).
io_save_to_file(data, file) ==
  {[result |-> Err, file |-> file],
   [result |-> Err, file |-> BrokenFile],
   [result |-> Ok(TRUE), file |-> JsonFile(data)],
   [result |-> Ok(TRUE), file |-> BrokenFile]}

\* io_utils::load_from_file: File::open or serde_json::from_reader fails, or
\* the data is returned
io_load_from_file(file) ==
  IF file = None THEN Err
  ELSE IF ~Unwrap(file).json THEN Err
  ELSE Ok(Unwrap(file).map)

\* ThreadCache::save_to_file(path)
ThreadCache_save_to_file(c, file) == io_save_to_file(save_to_file(c), file)

\* ThreadCache::load_from_file(path, max_size)
ThreadCache_load_from_file(file, max_size) ==
  LET string_map == io_load_from_file(file) IN
  IF ~string_map.ok THEN Err ELSE Ok(load_from_file(string_map.value, max_size))

\* the caches of the model: new, or after add_thread, take_snapshot and
\* add_thread
FileCaches ==
  {ThreadCache_new(max_size) : max_size \in 0..MaxCap}
    \cup UNION {UNION {add_thread(take_snapshot(c1).cache, p2, info) :
                        c1 \in add_thread(ThreadCache_new(max_size), p1, info)} :
                 max_size \in 0..MaxCap, p1 \in Paths \ {<<>>}, p2 \in Paths, info \in Infos}

\* strings a cache file written by someone else can have as keys: "1", "01"
\* and "x"
ForeignStrings == {to_string(ToDigits(1)), <<48, 49>>, <<120>>}

\* the file before the program touches it
ForeignFiles ==
  {None, BrokenFile}
    \cup {JsonFile([str \in S |-> ThreadInfo(ToDigits(1), 0, should_cache_min, 2, FALSE, None)]) :
            S \in SUBSET ForeignStrings}

\* args is the file with, in `saved`, the cache whose save wrote all of it
Init_File ==
  /\ cache \in FileCaches
  /\ \E file \in ForeignFiles : args = [file |-> file, saved |-> None]
  /\ other = ThreadCache_new(0)
  /\ hunter = NoHunter
  /\ last = NoOp
  /\ runs = 0
  /\ ret = None

\* cache.check(value)
FileCheck(value) ==
  /\ runs < MaxOps
  /\ cache' = check(cache, value).cache
  /\ last' = [op |-> "check"]
  /\ runs' = runs + 1
  /\ UNCHANGED <<hunter, args, ret, other>>

\* cache.save_to_file(path)
FileSave ==
  /\ runs < MaxOps
  /\ \E o \in ThreadCache_save_to_file(cache, args.file) :
       /\ args' = [file |-> o.file,
                   saved |-> IF o.file = JsonFile(save_to_file(cache)) /\ o.file # args.file
                             THEN Some(cache)
                             ELSE IF o.file = args.file THEN args.saved ELSE None]
       /\ ret' = Some(o.result)
  /\ last' = [op |-> "save"]
  /\ runs' = runs + 1
  /\ UNCHANGED <<hunter, cache, other>>

\* other = ThreadCache::load_from_file(path, max_size)
FileLoad(max_size) ==
  /\ runs < MaxOps
  /\ LET r == ThreadCache_load_from_file(args.file, max_size) IN
       /\ ret' = Some(r)
       /\ other' = IF r.ok THEN r.value ELSE other
  /\ last' = [op |-> "load", max_size |-> max_size]
  /\ runs' = runs + 1
  /\ UNCHANGED <<hunter, cache, args>>

Next_File ==
  \/ \E value \in Keys : FileCheck(value)
  \/ FileSave
  \/ \E max_size \in 0..MaxCap : FileLoad(max_size)

SpecFile == Init_File /\ [][Next_File]_vars

\* C25: load_from_file of a file that save_to_file wrote returns a cache whose
\* local plane has the keys and the ThreadInfo of the saved cache's local
\* plane, with hits 0, misses 0 and no snapshot, whatever max_size is.
C25_SaveThenLoad ==
  (last.op = "load" /\ IsSome(args.saved))
    => /\ Unwrap(ret).ok
       /\ Unwrap(ret).value.known_values = Unwrap(args.saved).known_values
       /\ Unwrap(ret).value.hits = 0
       /\ Unwrap(ret).value.misses = 0
       /\ Unwrap(ret).value.snapshot = None
       /\ Unwrap(ret).value.max_cache_size = last.max_size

\* a cache with two local entries, a snapshot and a counted check was saved and
\* loaded with a max_size below its number of entries
C25_Witness ==
  /\ last.op = "load"
  /\ IsSome(args.saved)
  /\ Cardinality(DOMAIN Unwrap(args.saved).known_values) = 2
  /\ last.max_size < 2
  /\ IsSome(Unwrap(args.saved).snapshot)
  /\ Unwrap(args.saved).hits + Unwrap(args.saved).misses > 0
  /\ len(other) = 2

\* the file holds a map with a key that is not a decimal string
HasMalformedKey(file) ==
  /\ IsSome(file)
  /\ Unwrap(file).json
  /\ \E str \in DOMAIN Unwrap(file).map : parse_BigUint(str) = None

\* C27: load_from_file of a file that holds a key that is not a decimal string
\* returns an error.
C27_MalformedKeyIsAnError ==
  (last.op = "load" /\ HasMalformedKey(args.file)) => ~Unwrap(ret).ok

---------------------------------------------------------------------------
(* SpecCkpt: RecordHuntCheckpoint::new, save and load                      *)

\* a checkpoint that takes cache_misses for cache_hits
RecordHuntCheckpoint_new_swapped(current_position, digits, mode, stats, cache_file, config) ==
  [generator_state |-> [current_value |-> to_string(current_position),
                        digits |-> digits, mode |-> mode],
   statistics |-> [numbers_tested |-> stats.numbers_tested,
                   seeds_tested |-> stats.seeds_tested,
                   cache_hits |-> stats.cache_misses,
                   cache_misses |-> stats.cache_misses,
                   best_iterations_found |-> stats.best_iterations_found,
                   best_digits_found |-> stats.best_digits_found,
                   candidates_above_200 |-> stats.candidates_above_200],
   thread_cache_file |-> cache_file,
   config |-> config]

\* RecordHuntCheckpoint::new (the timestamp is left out)
RecordHuntCheckpoint_new(current_position, digits, mode, stats, cache_file, config) ==
  [generator_state |-> [current_value |-> to_string(current_position),
                        digits |-> digits, mode |-> mode],
   statistics |-> [numbers_tested |-> stats.numbers_tested,
                   seeds_tested |-> stats.seeds_tested,
                   cache_hits |-> stats.cache_hits,
                   cache_misses |-> stats.cache_misses,
                   best_iterations_found |-> stats.best_iterations_found,
                   best_digits_found |-> stats.best_digits_found,
                   candidates_above_200 |-> stats.candidates_above_200],
   thread_cache_file |-> cache_file,
   config |-> config]

\* RecordHuntCheckpoint::save
RecordHuntCheckpoint_save(checkpoint, file) == io_save_to_file(checkpoint, file)

\* RecordHuntCheckpoint::load
RecordHuntCheckpoint_load(file) == io_load_from_file(file)

\* get_current_position
get_current_position(checkpoint) ==
  LET n == parse_BigUint(checkpoint.generator_state.current_value) IN
  IF IsSome(n) THEN Ok(Unwrap(n)) ELSE Err

\* CheckpointConfig of the test test_checkpoint_save_load
CkptConfig ==
  [min_digits |-> 23, target_iterations |-> 289, max_iterations |-> 300,
   target_final_digits |-> 142, cache_size |-> default_cache_size,
   checkpoint_interval |-> default_checkpoint_interval]

\* generator positions: zero, the first and the last number of a width, 196
CkptPositions ==
  {<<0>>, ToDigits(196)}
    \cup {Pow10(d - 1) : d \in 1..MaxDigits}
    \cup {ToDigits(Pow10Value(d) - 1) : d \in 1..MaxDigits}

\* statistics: those of a new hunter, and those after batches that found a
\* promising candidate
CkptStats ==
  {[numbers_tested |-> 0, seeds_tested |-> 0, cache_hits |-> 0, cache_misses |-> 0,
    best_iterations_found |-> 0, best_digits_found |-> 0, candidates_above_200 |-> <<>>],
   [numbers_tested |-> BatchSize, seeds_tested |-> BatchSize - 1, cache_hits |-> 1,
    cache_misses |-> 2, best_iterations_found |-> 228, best_digits_found |-> 112,
    candidates_above_200 |-> <<[number |-> RecordSeed, iterations |-> 228,
                               final_digits |-> 112]>>]}

\* other is the checkpoint in memory, args the file with, in `saved`, the
\* arguments of the checkpoint whose save wrote all of it
Init_Ckpt ==
  /\ args = [file |-> None, saved |-> None]
  /\ other = None
  /\ cache = ThreadCache_new(0)
  /\ hunter = NoHunter
  /\ last = NoOp
  /\ runs = 0
  /\ ret = None

CkptNew(current_position, digits, mode, stats) ==
  /\ runs < MaxOps
  /\ other' = Some(RecordHuntCheckpoint_new(current_position, digits, mode, stats,
                                            <<>>, CkptConfig))
  /\ last' = [op |-> "new", current_position |-> current_position, digits |-> digits,
              mode |-> mode, stats |-> stats]
  /\ runs' = runs + 1
  /\ UNCHANGED <<hunter, args, ret, cache>>

CkptSave ==
  /\ runs < MaxOps
  /\ IsSome(other)
  /\ last.op = "new"
  /\ \E o \in RecordHuntCheckpoint_save(Unwrap(other), args.file) :
       /\ args' = [file |-> o.file,
                   saved |-> IF o.file = JsonFile(Unwrap(other)) THEN Some(last)
                             ELSE IF o.file = args.file THEN args.saved ELSE None]
       /\ ret' = Some(o.result)
  /\ last' = [op |-> "save"]
  /\ runs' = runs + 1
  /\ UNCHANGED <<hunter, cache, other>>

CkptLoad ==
  /\ runs < MaxOps
  /\ ret' = Some(RecordHuntCheckpoint_load(args.file))
  /\ last' = [op |-> "load"]
  /\ runs' = runs + 1
  /\ UNCHANGED <<hunter, cache, other, args>>

Next_Ckpt ==
  \/ \E current_position \in CkptPositions, digits \in 1..MaxDigits, mode \in GeneratorMode,
        stats \in CkptStats : CkptNew(current_position, digits, mode, stats)
  \/ CkptSave
  \/ CkptLoad

SpecCkpt == Init_Ckpt /\ [][Next_Ckpt]_vars

\* C26: a checkpoint made by new from a position, a width, a mode and
\* statistics, then saved and loaded, gives the position back from
\* get_current_position, and has the width, the mode, every counter of the
\* statistics and the list candidates_above_200 of the originals.
C26_CheckpointRoundTrip ==
  (last.op = "load" /\ IsSome(args.saved))
    => /\ Unwrap(ret).ok
       /\ LET loaded == Unwrap(ret).value
              given == Unwrap(args.saved)
          IN /\ get_current_position(loaded) = Ok(given.current_position)
             /\ loaded.generator_state.digits = given.digits
             /\ loaded.generator_state.mode = given.mode
             /\ \A f \in DOMAIN given.stats : loaded.statistics[f] = given.stats[f]

\* the checkpoint of a generator in SmartRandom mode at 196, with a candidate
\* in its statistics, was saved and loaded
C26_Witness ==
  /\ last.op = "load"
  /\ IsSome(args.saved)
  /\ Unwrap(args.saved).current_position = ToDigits(196)
  /\ Unwrap(args.saved).mode = "SmartRandom"
  /\ Unwrap(args.saved).stats.candidates_above_200 # <<>>
  /\ Unwrap(ret).ok
  /\ Unwrap(ret).value.statistics.cache_hits = 1

---------------------------------------------------------------------------
(* SpecSave: save_checkpoint with the two files it writes, in the loop of  *)
(* hunt                                                                    *)

\* the RecordHuntCheckpoint that save_checkpoint builds
checkpoint_of(h) ==
  RecordHuntCheckpoint_new(h.seed_generator.current, h.current_digits, h.seed_generator.mode,
                           h.stats, <<>>,
                           [min_digits |-> h.min_digits, max_digits |-> h.max_digits,
                            target_iterations |-> h.target_iterations,
                            max_iterations |-> h.max_iterations,
                            target_final_digits |-> h.target_final_digits,
                            cache_size |-> len(h.thread_cache),
                            checkpoint_interval |-> h.checkpoint_interval])

\* save_checkpoint with the files: the checkpoint is saved; if that returned
\* an error the cache file is left alone, else the cache is saved. Each
\* outcome: the two files, what checkpoint.save returned, whether
\* thread_cache.save_to_file was called, and the hunter (taken by &self).
save_checkpoint_files(h, checkpoint_file, cache_file) ==
  UNION {IF ~c.result.ok
         THEN {[checkpoint_file |-> c.file, cache_file |-> cache_file,
                checkpoint_result |-> c.result, cache_saved |-> FALSE, hunter |-> h]}
         ELSE {[checkpoint_file |-> c.file, cache_file |-> t.file,
                checkpoint_result |-> c.result, cache_saved |-> TRUE, hunter |-> h] :
                 t \in ThreadCache_save_to_file(h.thread_cache, cache_file)} :
           c \in RecordHuntCheckpoint_save(checkpoint_of(h), checkpoint_file)}

\* where the hunts of SpecSave begin: before 196 and before 10911
SaveStarts == {ToDigits(190), ToDigits(10905)}

\* the two files before the hunt: missing, broken, or left by an earlier hunt
OldFiles == {None, BrokenFile, JsonFile(EmptyMap)}

\* args holds the checkpoint file and the cache file
Init_Save ==
  /\ \E start \in SaveStarts, max_iterations \in HuntBounds :
       hunter = [RecordHunter_new(HuntConfig(Len(start), None, 55, max_iterations, 28,
                                             default_cache_size, BatchSize))
                   EXCEPT !.seed_generator = from_checkpoint(Len(start), start)]
  /\ \E checkpoint_file \in OldFiles, cache_file \in OldFiles :
       args = [checkpoint_file |-> checkpoint_file, cache_file |-> cache_file]
  /\ last = NoOp
  /\ runs = 0
  /\ ret = None
  /\ cache = ThreadCache_new(0)
  /\ other = ThreadCache_new(0)

\* steps 1 to 4 of a pass through the loop, and the test of step 5
SavePass ==
  /\ hunter.state = "hunting"
  /\ runs < MaxBatches
  /\ last.op # "pass"
  /\ next_raw_batch(hunter.seed_generator, BatchSize).batch # <<>>
  /\ hunter' \in hunt_pass(hunter)
  /\ last' = [op |-> IF is_multiple_of(hunter'.stats.numbers_tested, hunter.checkpoint_interval)
                     THEN "pass" ELSE "batch"]
  /\ runs' = runs + 1
  /\ UNCHANGED <<args, ret, cache, other>>

\* step 5 of the pass: save_checkpoint
SaveCheckpoint ==
  /\ last.op = "pass"
  /\ \E o \in save_checkpoint_files(hunter, args.checkpoint_file, args.cache_file) :
       /\ hunter' = o.hunter
       /\ args' = [checkpoint_file |-> o.checkpoint_file, cache_file |-> o.cache_file]
       /\ last' = [op |-> "save_checkpoint", pre |-> hunter, files |-> args,
                   checkpoint_result |-> o.checkpoint_result, cache_saved |-> o.cache_saved]
  /\ UNCHANGED <<ret, cache, other, runs>>

Next_Save == SavePass \/ SaveCheckpoint

SpecSave == Init_Save /\ [][Next_Save]_vars

\* the checkpoint file does not hold the checkpoint: writing it failed
CheckpointNotWritten ==
  args.checkpoint_file # JsonFile(checkpoint_of(last.pre))

\* C28: after save_checkpoint the generator position, the statistics and the
\* cache of the hunter are as before, whatever failed; and when the
\* checkpoint file could not be written, the cache file was not written
\* either (it is as it was).
C28_FailedSaveIsHarmless ==
  last.op = "save_checkpoint"
    => /\ hunter.seed_generator = last.pre.seed_generator
       /\ hunter.stats = last.pre.stats
       /\ hunter.thread_cache = last.pre.thread_cache
       /\ CheckpointNotWritten => args.cache_file = last.files.cache_file

---------------------------------------------------------------------------
(* SpecPair: the loop of RecordHunter::hunt over the batches from one       *)
(* number of six digits to another with the same number of steps           *)

\* 390594 and 390639 both reach a palindrome after 51 steps; both pass the
\* seed filter and the quick filter
PairFirst == ToDigits(390594)

MaxPairBatches == 7  \* SpecPair: number of passes through the loop of hunt

\* the generator stands at PairFirst or up to three numbers before it
PairStarts == {ToDigits(n) : n \in 390591..390594}

\* a target at the 51 steps of the two numbers or above them
PairConfigs ==
  {HuntConfig(Len(PairFirst), None, target_iterations, max_iterations, 0,
              default_cache_size, default_checkpoint_interval) :
     target_iterations \in {51, 52}, max_iterations \in HuntBounds}

\* the candidates that the loop over the results hands to handle_record_found
RECURSIVE handed_records(_, _)
handed_records(handed, results) ==
  IF results = <<>> THEN handed
  ELSE handed_records(IF Head(results).is_record
                      THEN handed \cup {RecordCandidate(Head(results))} ELSE handed,
                      Tail(results))

Init_Pair ==
  /\ \E config \in PairConfigs, start \in PairStarts :
       /\ hunter = [RecordHunter_new(config) EXCEPT
                      !.seed_generator = from_checkpoint(config.min_digits, start)]
       /\ args = [start |-> start]
  /\ last = [op |-> "none", handed |-> {}]
  /\ runs = 0
  /\ ret = None
  /\ cache = ThreadCache_new(0)
  /\ other = ThreadCache_new(0)

\* one pass through the loop of hunt with a batch, processed by one worker;
\* `handed` collects the records passed to handle_record_found so far
PairBatch ==
  /\ hunter.state = "hunting"
  /\ runs < MaxPairBatches
  /\ LET pulled == next_raw_batch(hunter.seed_generator, BatchSize)
         snap == take_snapshot(hunter.thread_cache)
         config == [max_iterations |-> hunter.max_iterations,
                    target_iterations |-> hunter.target_iterations,
                    target_final_digits |-> hunter.target_final_digits]
     IN /\ pulled.batch # <<>>
        /\ \E acc \in process_batch(pulled.batch, {}, snap.handle, config,
                                    current_p10_max(pulled.generator)) :
             \E c \in merge(snap.cache, acc.cache) :
               /\ hunter' = update_state(hunter, pulled.generator, c, acc, Len(pulled.batch))
               /\ last' = [op |-> "batch", handed |-> handed_records(last.handed, acc.results)]
  /\ runs' = runs + 1
  /\ UNCHANGED <<args, ret, cache, other>>

Next_Pair == PairBatch

SpecPair == Init_Pair /\ [][Next_Pair]_vars

\* C31: every record that was passed to handle_record_found is stored in a
\* record file: no record file written for one record is overwritten by the
\* file of another record, also when the two have the same iteration count.
\* (A record file is never written again for a number the generator has left
\* behind, so a record missing after a batch is missing when hunt returns.)
C31_EveryRecordKeepsItsFile ==
  \A r \in last.handed : r \in hunter.record_files

---------------------------------------------------------------------------
(* SpecReverse: reverse_number applied to a number, then to the result     *)

\* the numbers 0..MaxStart, and three of many digits that end in zeros
ReverseInputs ==
  {ToDigits(n) : n \in 0..MaxStart}
    \cup {RecordSeed \o <<0>>, RecordSeed \o <<0, 0, 0>>, RecordSibling \o <<0, 0>>}

Init_Reverse ==
  /\ args \in [n : ReverseInputs]
  /\ ret = None
  /\ runs = 0
  /\ last = NoOp
  /\ cache = ThreadCache_new(0)
  /\ other = ThreadCache_new(0)
  /\ hunter = NoHunter

\* reverse_number of the number, and then of what the call before returned
Reverse ==
  /\ runs < 2
  /\ ret' = Some(reverse_number(IF runs = 0 THEN args.n ELSE Unwrap(ret)))
  /\ runs' = runs + 1
  /\ UNCHANGED <<args, last, cache, other, hunter>>

Next_Reverse == Reverse

SpecReverse == Init_Reverse /\ [][Next_Reverse]_vars

\* the decimal digits of n without the zeros at their end (0 stays 0)
RECURSIVE WithoutTrailingZeros(_)
WithoutTrailingZeros(n) ==
  IF Len(n) > 1 /\ n[Len(n)] = 0 THEN WithoutTrailingZeros(SubSeq(n, 1, Len(n) - 1)) ELSE n

\* C32: reverse_number(reverse_number(n)) is n when the decimal digits of n do
\* not end in 0, and otherwise n with the zeros at its end removed.
C32_DoubleReverse ==
  runs = 2 => Unwrap(ret) = IF args.n[Len(args.n)] # 0 THEN args.n
                             ELSE WithoutTrailingZeros(args.n)

\* 100 has been reversed twice and the result is 1
C32_Witness ==
  /\ runs = 2
  /\ args.n = ToDigits(100)
  /\ ret = Some(ToDigits(1))

---------------------------------------------------------------------------
(* The range search (src/src/search.rs) *)

\* u64::MAX = 18446744073709551615; a u64 is held as its decimal digits
u64_MAX == <<1, 8, 4, 4, 6, 7, 4, 4, 0, 7, 3, 7, 0, 9, 5, 5, 1, 6, 1, 5>>

\* n.to_string().parse::<u64>().ok(): None above u64::MAX
parse_u64(n) == IF BigLess(u64_MAX, n) THEN None ELSE Some(n)

unwrap_or(o, default) == IF IsSome(o) THEN Unwrap(o) ELSE default

SearchResults_new == [total_tested |-> 0, potential_lychrel |-> <<>>, palindromes_found |-> <<>>]

\* the two pushes after a test: a potential Lychrel number, or a palindrome
\* reached after at least one step
push_result(results, result) ==
  IF result.is_potential_lychrel
  THEN [results EXCEPT !.potential_lychrel = Append(@, result)]
  ELSE IF result.iterations > 0
  THEN [results EXCEPT !.palindromes_found = Append(@, result)]
  ELSE results

\* the while loop of search_sequential from `current`
RECURSIVE search_loop(_, _, _, _)
search_loop(results, current, end, max_iterations) ==
  IF BigLess(end, current) THEN results
  ELSE search_loop(push_result([results EXCEPT !.total_tested = @ + 1],
                               lychrel_iteration(current, max_iterations)),
                   BigAdd(current, <<1>>), end, max_iterations)

search_sequential(config) ==
  search_loop(SearchResults_new, config.start, config.end, config.max_iterations)

\* the numbers start_u64..=end_u64
RECURSIVE RangeInclusive(_, _)
RangeInclusive(from, to) ==
  IF BigLess(to, from) THEN {} ELSE {from} \cup RangeInclusive(BigAdd(from, <<1>>), to)

---------------------------------------------------------------------------
(* SpecSearch: search_range over one range, sequential and parallel; the   *)
(* workers of the parallel search test the numbers in any order            *)

MaxRange == 3        \* SpecSearch: the range holds at most MaxRange numbers

\* ranges of 0..MaxRange numbers around 0, 89, 196 and u64::MAX
SearchRanges ==
  {[start |-> ToDigits(a), end |-> ToDigits(a + k - 1)] :
     a \in {1, 88, 195, 196}, k \in 0..MaxRange}
    \cup {[start |-> ToDigits(0), end |-> ToDigits(k)] : k \in 0..(MaxRange - 1)}
    \cup {[start |-> start, end |-> BigAdd(start, ToDigits(k))] :
            start \in {BigAdd(u64_MAX, ToDigits(a)) : a \in 0..2}
                        \cup {SubSeq(u64_MAX, 1, 19) \o <<a>> : a \in 3..4},
            k \in 0..(MaxRange - 1)}

Init_Search ==
  /\ \E range \in SearchRanges, max_iterations \in {1, 24} :
       args = [start |-> range.start, end |-> range.end, max_iterations |-> max_iterations]
  /\ ret = [sequential |-> None, parallel |-> None]
  /\ last = [op |-> "none", pending |-> {}, results |-> SearchResults_new]
  /\ runs = 0
  /\ cache = ThreadCache_new(0)
  /\ other = ThreadCache_new(0)
  /\ hunter = NoHunter

\* search_range with parallel = false
SearchSequential ==
  /\ ret.sequential = None
  /\ ret' = [ret EXCEPT !.sequential = Some(search_sequential(args))]
  /\ UNCHANGED <<args, last, runs, cache, other, hunter>>

\* search_range with parallel = true, up to the parallel iterator: `pending`
\* are the numbers no worker has tested yet
ParallelBegin ==
  /\ last.op = "none"
  /\ LET start_u64 == unwrap_or(parse_u64(args.start), ToDigits(0))
         end_u64 == unwrap_or(parse_u64(args.end), start_u64)
         total == RangeInclusive(start_u64, end_u64)
     IN last' = [op |-> "for_each", pending |-> total,
                 results |-> [SearchResults_new EXCEPT !.total_tested = Cardinality(total)]]
  /\ UNCHANGED <<args, ret, runs, cache, other, hunter>>

\* a worker tests n and pushes the result under the lock
ParallelTest(n) ==
  /\ last.op = "for_each"
  /\ n \in last.pending
  /\ last' = [last EXCEPT !.pending = @ \ {n},
                          !.results = push_result(@, lychrel_iteration(n, args.max_iterations))]
  /\ UNCHANGED <<args, ret, runs, cache, other, hunter>>

\* every number has been tested: search_parallel returns
ParallelEnd ==
  /\ last.op = "for_each"
  /\ last.pending = {}
  /\ ret' = [ret EXCEPT !.parallel = Some(last.results)]
  /\ last' = [last EXCEPT !.op = "returned"]
  /\ UNCHANGED <<args, runs, cache, other, hunter>>

Next_Search ==
  \/ SearchSequential
  \/ ParallelBegin
  \/ \E n \in last.pending : ParallelTest(n)
  \/ ParallelEnd

SpecSearch == Init_Search /\ [][Next_Search]_vars

\* the start numbers of a vector of results
StartNumbers(results) == {results[i].start_number : i \in DOMAIN results}

\* C33: the parallel and the sequential search of the same range return the
\* same total_tested, the size of the range, and the same sets of start
\* numbers in potential_lychrel and in palindromes_found, whatever the order
\* in which the parallel workers test the numbers.
C33_ParallelAgreesWithSequential ==
  (IsSome(ret.sequential) /\ IsSome(ret.parallel))
    => LET seq == Unwrap(ret.sequential)
           par == Unwrap(ret.parallel)
       IN /\ seq.total_tested = par.total_tested
          /\ seq.total_tested = Cardinality(RangeInclusive(args.start, args.end))
          /\ StartNumbers(seq.potential_lychrel) = StartNumbers(par.potential_lychrel)
          /\ StartNumbers(seq.palindromes_found) = StartNumbers(par.palindromes_found)

---------------------------------------------------------------------------
(* The widths a hunt goes through (SpecLive) *)

\* the batch that the next pass of the loop pulls is empty
BatchIsEmpty == next_raw_batch(hunter.seed_generator, BatchSize).batch = <<>>

\* a wider range follows the current one
WiderRangeFollows ==
  IsSome(hunter.max_digits) /\ hunter.current_digits < Unwrap(hunter.max_digits)

\* what a step that changes current_digits does
WidthChangesByOne ==
  /\ BatchIsEmpty
  /\ WiderRangeFollows
  /\ hunter'.current_digits = hunter.current_digits + 1
  /\ hunter'.current_range_tested = 0
  /\ hunter'.seed_generator = SeedGenerator_new(hunter'.current_digits, hunter.seed_generator.mode)

\* current_digits is within the widths of the configuration
WidthWithinConfig ==
  /\ hunter.current_digits >= hunter.min_digits
  /\ hunter.current_digits <= (IF IsSome(hunter.max_digits)
                               THEN Max(hunter.min_digits, Unwrap(hunter.max_digits))
                               ELSE hunter.min_digits)

\* C34: current_digits changes only in a pass whose batch is empty while
\* current_digits < max_digits, and then by +1, with current_range_tested
\* reset to 0 and a fresh generator for the new width; a pass whose batch is
\* empty while max_digits is absent or reached ends the hunt; current_digits
\* stays between min_digits and max(min_digits, max_digits), and at
\* min_digits when max_digits is absent.
C34_WidthsOnlyGoUp ==
  /\ []WidthWithinConfig
  /\ [][(hunter'.current_digits # hunter.current_digits) => WidthChangesByOne]_vars
  /\ [][(hunter.state = "hunting" /\ BatchIsEmpty /\ ~WiderRangeFollows) => (hunter'.state = "done")]_vars

\* the hunt has moved from the numbers of one digit to those of two
C34_Witness ==
  /\ last.op = "next_digits"
  /\ hunter.min_digits = 1
  /\ hunter.max_digits = Some(2)
  /\ hunter.current_digits = 2
  /\ hunter.current_range_tested = 0
  /\ hunter.stats.numbers_tested = 9

---------------------------------------------------------------------------
(* SpecCandidate: process_candidate on one candidate and a worker cache    *)

\* candidates the quick filter rejects (89 and 121: a palindrome and slow
\* growth; 10638: slow growth, 65 bits; 70759: a palindrome after 47 steps,
\* 67 bits) and candidates it lets through (10585: 66 bits)
CandidateInputs == {ToDigits(n) : n \in {89, 121, 196, 295, 879, 10585, 10638, 10677, 10911, 70759}}

\* the worker cache: fresh, or as the full test of 196, of 10833 (whose first
\* iterate is the second of 10911) or of 10911 left it
CandidateCaches ==
  {ThreadCache_new(worker_cache_size)}
    \cup UNION {{o.cache : o \in lychrel_iteration_with_cache(ToDigits(n), 2 * should_cache_min,
                                                             ThreadCache_new(worker_cache_size))} :
                  n \in {196, 10833, 10911}}

Init_Candidate ==
  /\ \E candidate \in CandidateInputs, max_iterations \in HuntBounds :
       args = [candidate |-> candidate,
               config |-> [max_iterations |-> max_iterations, target_iterations |-> 55,
                           target_final_digits |-> 28]]
  /\ cache \in CandidateCaches
  /\ ret = None
  /\ last = NoOp
  /\ runs = 0
  /\ other = ThreadCache_new(0)
  /\ hunter = NoHunter

ProcessCandidate ==
  /\ last.op = "none"
  /\ \E o \in process_candidate(args.candidate, cache, args.config) :
       /\ ret' = Some(o.result)
       /\ cache' = o.cache
  /\ last' = [op |-> "process_candidate", pre |-> cache]
  /\ UNCHANGED <<args, runs, other, hunter>>

Next_Candidate == ProcessCandidate

SpecCandidate == Init_Candidate /\ [][Next_Candidate]_vars

\* lychrel_iteration(c, 50) reaches a palindrome, or its final value has less
\* than 66 bits more than c
QuickRejected(c) ==
  LET quick == lychrel_iteration(c, quick_iterations) IN
  \/ quick.is_palindrome
  \/ bits(Unwrap(quick.final_number)) - bits(c) < growth_bits

\* C35: process_candidate returns no result and leaves the worker cache as it
\* was, counters included, exactly when the quick run of 50 iterations reaches
\* a palindrome or grows by less than 66 bits; otherwise its result and the
\* cache are those of one run of lychrel_iteration_with_cache(c,
\* max_iterations, cache).
C35_QuickFilterDecides ==
  last.op = "process_candidate"
    => /\ (Unwrap(ret) = None) <=> QuickRejected(args.candidate)
       /\ QuickRejected(args.candidate) => cache = last.pre
       /\ ~QuickRejected(args.candidate)
            => \E o \in lychrel_iteration_with_cache(args.candidate,
                                                     args.config.max_iterations, last.pre) :
                 /\ cache = o.cache
                 /\ Unwrap(Unwrap(ret)).number = args.candidate
                 /\ Unwrap(Unwrap(ret)).iterations = o.result.iterations

\* 70759 grows by 67 bits and reaches a palindrome after 47 steps: rejected,
\* with a cache that held the thread of 196
C35_Witness ==
  /\ last.op = "process_candidate"
  /\ args.candidate = ToDigits(70759)
  /\ ret = Some(None)
  /\ cache.known_values # EmptyMap
  /\ cache = last.pre

\* C36: for a candidate that passes the seed filter and the quick filter, the
\* iterations, final_digits, is_record and is_promising of the result are
\* those computed from lychrel_iteration(c, max_iterations) without a cache,
\* whatever the worker cache holds.
C36_VerdictAsWithoutCache ==
  (/\ last.op = "process_candidate"
   /\ is_potential_seed(args.candidate, Pow10(Len(args.candidate) - 1))
   /\ Unwrap(ret) # None)
    => Unwrap(Unwrap(ret))
         = process_result(args.candidate,
                          lychrel_iteration(args.candidate, args.config.max_iterations),
                          args.config)

---------------------------------------------------------------------------
(* The position stored in a checkpoint (SpecLive) *)

\* the count of the numbers of the widths from..(to - 1)
RECURSIVE NumbersOfWidths(_, _)
NumbersOfWidths(from, to) ==
  IF from >= to THEN 0 ELSE 9 * Pow10Value(from - 1) + NumbersOfWidths(from + 1, to)

\* C37: in a Sequential hunt started fresh, the checkpoint written at the end
\* of a batch stores the position 10^(digits-1) + current_range_tested and a
\* numbers_tested equal to the count of the numbers of the earlier widths
\* plus current_range_tested; the generator built from the checkpoint pulls
\* the batch the running hunt pulls next, so a resume neither skips nor
\* repeats a number.
C37_CheckpointAtFrontier ==
  (CheckpointJustSaved /\ hunter.seed_generator.mode = "Sequential")
    => LET ck == Unwrap(hunter.checkpoint) IN
       /\ ck.current_number = BigAdd(Pow10(ck.current_digits - 1),
                                     ToDigits(hunter.current_range_tested))
       /\ ck.stats.numbers_tested
            = NumbersOfWidths(hunter.min_digits, ck.current_digits) + hunter.current_range_tested
       /\ next_raw_batch(from_checkpoint(ck.current_digits, ck.current_number), BatchSize).batch
            = next_raw_batch(hunter.seed_generator, BatchSize).batch

\* a checkpoint in the second width of a hunt: the nine numbers of one digit
\* and fourteen of two digits are behind it
C37_Witness ==
  /\ CheckpointJustSaved
  /\ hunter.seed_generator.mode = "Sequential"
  /\ hunter.min_digits = 1
  /\ hunter.current_digits = 2
  /\ hunter.current_range_tested = 2 * BatchSize
  /\ Unwrap(hunter.checkpoint).stats.numbers_tested = 9 + 2 * BatchSize
  /\ Unwrap(hunter.checkpoint).current_number = ToDigits(10 + 2 * BatchSize)

---------------------------------------------------------------------------
(* SpecResume: a Sequential generator, and from some call on the generator *)
(* that from_checkpoint builds from its position, called side by side      *)

Init_Resume ==
  /\ \E digits \in 1..MaxDigits : args = SeedGenerator_new(digits, "Sequential")
  /\ other = None
  /\ ret = None
  /\ last = NoOp
  /\ runs = 0
  /\ cache = ThreadCache_new(0)
  /\ hunter = NoHunter

\* a call of next on the generator, before the checkpoint (no further call
\* is followed once it has returned None)
NextBefore ==
  /\ other = None
  /\ ~(last.op = "next" /\ ret = None)
  /\ \E o \in SeedGenerator_next(args) :
       /\ args' = o.generator
       /\ ret' = o.value
  /\ last' = [op |-> "next"]
  /\ UNCHANGED <<other, runs, cache, hunter>>

\* from_checkpoint(digits, Sequential, current_position())
FromCheckpoint ==
  /\ other = None
  /\ other' = Some(from_checkpoint(args.digits, args.current))
  /\ last' = [op |-> "from_checkpoint"]
  /\ UNCHANGED <<args, ret, runs, cache, hunter>>

\* a call of next on each of the two generators; after a None, one more
NextOnBoth ==
  /\ other # None
  /\ ~(last.op = "both" /\ last.ended)
  /\ \E o \in SeedGenerator_next(args), r \in SeedGenerator_next(Unwrap(other)) :
       /\ args' = o.generator
       /\ other' = Some(r.generator)
       /\ ret' = [running |-> o.value, resumed |-> r.value]
  /\ last' = [op |-> "both", ended |-> last.op = "both" /\ ret.running = None]
  /\ UNCHANGED <<runs, cache, hunter>>

Next_Resume == NextBefore \/ FromCheckpoint \/ NextOnBoth

SpecResume == Init_Resume /\ [][Next_Resume]_vars

\* C38: after any number of calls of next on a Sequential generator g, the
\* generator from_checkpoint(d, Sequential, g.current_position()) returns
\* call by call what g returns, None included.
C38_ResumedGeneratorAgrees ==
  last.op = "both" => ret.running = ret.resumed

\* a generator of two digits was rebuilt after calls of next, and both have
\* gone through their values side by side to the None at the end
C38_Witness ==
  /\ last.op = "both"
  /\ args.digits = 2
  /\ ret = [running |-> None, resumed |-> None]
  /\ Unwrap(other).generated_count > 1
  /\ args.generated_count > Unwrap(other).generated_count + 1

---------------------------------------------------------------------------
(* The resumable range search (src/src/search.rs, search_checkpoint.rs) *)

\* SearchCheckpointBuilder::build (the elapsed time and the time stamp are
\* left out)
SearchCheckpoint_build(config, current, results) ==
  [start_range |-> config.start, end_range |-> config.end, current_number |-> current,
   max_iterations |-> config.max_iterations, numbers_tested |-> results.total_tested,
   potential_lychrel_found |->
     [i \in DOMAIN results.potential_lychrel |-> results.potential_lychrel[i].start_number] \o <<>>,
   checkpoint_interval |-> config.checkpoint_interval,
   checkpoint_file |-> config.checkpoint_file]

\* the local variables of the loop of a resumable search
SearchState(config, current, results, last_checkpoint) ==
  [config |-> config, current |-> current, results |-> results,
   last_checkpoint |-> last_checkpoint]

\* one pass through the while loop of search_range_resumable (and of
\* resume_search_from_checkpoint, whose loop is the same): the test, the
\* pushes, and the checkpoint when one is due; the outcomes it can have, each
\* with the checkpoint file it leaves
search_pass(st, file) ==
  LET result == lychrel_iteration(st.current, st.config.max_iterations)
      results == push_result([st.results EXCEPT !.total_tested = @ + 1], result)
      should_save_checkpoint ==
        IF IsSome(st.config.checkpoint_interval)
        THEN results.total_tested - st.last_checkpoint >= Unwrap(st.config.checkpoint_interval)
        ELSE FALSE
      following == [st EXCEPT !.results = results, !.current = BigAdd(st.current, <<1>>)]
  IN IF should_save_checkpoint /\ IsSome(st.config.checkpoint_file)
     THEN {[state |-> IF o.result.ok
                      THEN [following EXCEPT !.last_checkpoint = results.total_tested]
                      ELSE following,
            file |-> o.file, saved |-> o.result.ok] :
             o \in io_save_to_file(SearchCheckpoint_build(st.config, st.current, results), file)}
     ELSE {[state |-> following, file |-> file, saved |-> FALSE]}

\* a resume that begins at the stored number
resume_state_at_current(checkpoint) ==
  SearchState([start |-> checkpoint.start_range, end |-> checkpoint.end_range,
               max_iterations |-> checkpoint.max_iterations,
               checkpoint_interval |-> checkpoint.checkpoint_interval,
               checkpoint_file |-> checkpoint.checkpoint_file],
              checkpoint.current_number,
              [total_tested |-> checkpoint.numbers_tested,
               potential_lychrel |->
                 [i \in DOMAIN checkpoint.potential_lychrel_found |->
                    IterationResult(checkpoint.potential_lychrel_found[i], FALSE,
                                    checkpoint.max_iterations, None)] \o <<>>,
               palindromes_found |-> <<>>],
              checkpoint.numbers_tested)

\* resume_search_from_checkpoint, up to its loop
resume_state(checkpoint) ==
  SearchState([start |-> checkpoint.start_range, end |-> checkpoint.end_range,
               max_iterations |-> checkpoint.max_iterations,
               checkpoint_interval |-> checkpoint.checkpoint_interval,
               checkpoint_file |-> checkpoint.checkpoint_file],
              BigAdd(checkpoint.current_number, <<1>>),
              [total_tested |-> checkpoint.numbers_tested,
               potential_lychrel |->
                 [i \in DOMAIN checkpoint.potential_lychrel_found |->
                    IterationResult(checkpoint.potential_lychrel_found[i], FALSE,
                                    checkpoint.max_iterations, None)] \o <<>>,
               palindromes_found |-> <<>>],
              checkpoint.numbers_tested)

---------------------------------------------------------------------------
(* SpecSweep: search_range_resumable over a range, stopped after a          *)
(* checkpoint and continued by resume_search_from_checkpoint                *)

\* ranges of 1..MaxRange + 1 numbers from 1, from 87 and from 194
SweepRanges ==
  {[start |-> ToDigits(a), end |-> ToDigits(a + k)] : a \in {1, 87, 194}, k \in 0..MaxRange}

SweepConfigs ==
  {[start |-> range.start, end |-> range.end, max_iterations |-> max_iterations,
    checkpoint_interval |-> checkpoint_interval, checkpoint_file |-> Some("checkpoint.json")] :
     range \in SweepRanges, max_iterations \in {1, 24},
     checkpoint_interval \in {None, Some(1), Some(2)}}

\* `last.state` are the local variables of the running search, `other` is the
\* checkpoint file, `runs` counts the resumes
Init_Sweep ==
  /\ args \in SweepConfigs
  /\ last = [op |-> "search_range_resumable", saved |-> FALSE,
             state |-> SearchState(args, args.start, SearchResults_new, 0)]
  /\ other = None
  /\ ret = None
  /\ runs = 0
  /\ cache = ThreadCache_new(0)
  /\ hunter = NoHunter

\* one pass through the loop of the running search
SweepPass ==
  /\ ret = None
  /\ ~BigLess(last.state.config.end, last.state.current)
  /\ \E o \in search_pass(last.state, other) :
       /\ last' = [last EXCEPT !.state = o.state, !.saved = o.saved]
       /\ other' = o.file
  /\ UNCHANGED <<args, ret, runs, cache, hunter>>

\* the search is stopped right after a checkpoint it saved, the checkpoint is
\* loaded and resume_search_from_checkpoint begins
SweepResume ==
  /\ ret = None
  /\ last.saved
  /\ io_load_from_file(other).ok
  /\ last' = [op |-> "resume_search_from_checkpoint", saved |-> FALSE,
              state |-> resume_state(io_load_from_file(other).value)]
  /\ runs' = runs + 1
  /\ UNCHANGED <<args, ret, other, cache, hunter>>

\* the loop ends: the search returns its results
SweepReturn ==
  /\ ret = None
  /\ BigLess(last.state.config.end, last.state.current)
  /\ ret' = Some(last.state.results)
  /\ UNCHANGED <<args, last, other, runs, cache, hunter>>

Next_Sweep == SweepPass \/ SweepResume \/ SweepReturn

SpecSweep == Init_Sweep /\ [][Next_Sweep]_vars

\* C39: a sequential resumable search that was stopped right after a
\* checkpoint it saved and continued from that checkpoint returns the
\* total_tested and the potential_lychrel start numbers, in their order, of
\* one uninterrupted search of the range.
C39_ResumeLosesNothing ==
  (IsSome(ret) /\ runs > 0)
    => LET whole == search_sequential(args) IN
       /\ Unwrap(ret).total_tested = whole.total_tested
       /\ [i \in DOMAIN Unwrap(ret).potential_lychrel |->
             Unwrap(ret).potential_lychrel[i].start_number]
            = [i \in DOMAIN whole.potential_lychrel |-> whole.potential_lychrel[i].start_number]

\* the search of 194..197 with a checkpoint every two numbers was stopped
\* after its first checkpoint and resumed; it returned 196 and 4 tested
C39_Witness ==
  /\ IsSome(ret)
  /\ runs = 1
  /\ args.start = ToDigits(194)
  /\ args.end = ToDigits(197)
  /\ args.max_iterations = 24
  /\ args.checkpoint_interval = Some(2)
  /\ Unwrap(ret).total_tested = 4
  /\ \E i \in DOMAIN Unwrap(ret).potential_lychrel :
       /\ Unwrap(ret).potential_lychrel[i].start_number = ToDigits(196)
       /\ Unwrap(ret).potential_lychrel[i].final_number = None

---------------------------------------------------------------------------
(* SpecEntries: the batches of SpecFold on hunts that write both kinds of   *)
(* entries: 10911 reaches its palindrome after 55 steps, within the bound   *)
(* of 100 and beyond the bound of 50, and 196 reaches none; the hunter's    *)
(* cache is the default one or, on the hunt that meets 10911 in its last    *)
(* batch, so small that the merge evicts                                    *)

SmallCacheSize == 1

EntryStarts == {ToDigits(190), ToDigits(10905)}

\* the start from which 10911 is the first candidate of the last batch
EvictingStart == ToDigits(10911 - BatchSize * (MaxBatches - 1))

\* the hunts of SpecEntries: a configuration and where the generator stands
EntryHunts ==
  {[start |-> start,
    config |-> HuntConfig(Len(start), None, 55, max_iterations, 28, default_cache_size,
                          default_checkpoint_interval)] :
     start \in EntryStarts, max_iterations \in HuntBounds}
    \cup {[start |-> EvictingStart,
           config |-> HuntConfig(5, None, 55, 2 * should_cache_min, 28, SmallCacheSize,
                                 default_checkpoint_interval)]}

Init_Entries ==
  /\ \E h \in EntryHunts :
       hunter = [RecordHunter_new(h.config) EXCEPT
                   !.seed_generator = from_checkpoint(h.config.min_digits, h.start)]
  /\ last = NoOp
  /\ runs = 0
  /\ args = None
  /\ ret = None
  /\ cache = ThreadCache_new(0)
  /\ other = <<>>

SpecEntries == Init_Entries /\ [][Next_Fold]_vars

\* the entries of both planes of a cache
EntriesOf(c) ==
  {c.known_values[k] : k \in DOMAIN c.known_values}
    \cup (IF IsSome(c.snapshot)
          THEN {Unwrap(c.snapshot)[k] : k \in DOMAIN Unwrap(c.snapshot)}
          ELSE {})

WellFormedEntry(info) ==
  /\ info.max_iterations_tested >= should_cache_min
  /\ IsSome(info.palindrome_at_iteration) <=> info.reached_palindrome
  /\ info.reached_palindrome
       => Unwrap(info.palindrome_at_iteration) = info.max_iterations_tested

\* C40: every entry of the local plane and of the snapshot plane of the
\* hunter's cache and of every worker cache has max_iterations_tested of at
\* least 50, and has palindrome_at_iteration present exactly when
\* reached_palindrome is true, and then equal to max_iterations_tested.
C40_EntriesWellFormed ==
  /\ \A info \in EntriesOf(hunter.thread_cache) : WellFormedEntry(info)
  /\ \A i \in DOMAIN other : \A info \in EntriesOf(other[i].acc.cache) : WellFormedEntry(info)

\* after a merge and a snapshot a worker of the next batch sees the thread of
\* 10911 with its palindrome in the snapshot plane and has admitted nothing
\* itself, and the hunter's local plane is empty again
C40_Witness ==
  /\ hunter.state = "folding"
  /\ hunter.thread_cache.known_values = EmptyMap
  /\ \E i \in DOMAIN other :
       /\ other[i].acc.cache.known_values = EmptyMap
       /\ \E info \in EntriesOf(other[i].acc.cache) :
            /\ info.seed_number = ToDigits(10911)
            /\ info.reached_palindrome
            /\ info.palindrome_at_iteration = Some(55)

====
